---- MODULE Spec2Model ----
(***************************************************************************)
(* Model of the faxSim PDF -> TIFF degradation pipeline (faxSim.js and its *)
(* effect modules).  The temp directory is a set of paths, every           *)
(* ImageMagick / fs call is an operation on that set, Math.random() is a   *)
(* draw r/Den with r in 0..Den-1, and probabilities are p/Den.             *)
(***************************************************************************)
EXTENDS Integers, Sequences, FiniteSets, TLC

VARIABLES cfg, srcFiles, fileIdx, pc, cur, files, outputs,
          isFirstPdf, currentDebug, trace, snaps, logs, sw, threw, call

vars == <<cfg, srcFiles, fileIdx, pc, cur, files, outputs,
          isFirstPdf, currentDebug, trace, snaps, logs, sw, threw, call>>

(* ------------------------------ bounds --------------------------------- *)
\* Math.random() is modelled as r/Den, r in 0..Den-1; probabilities as p/Den.
\* With Den = 3 a probability of 1/3 has a draw below it and a draw above it.
Den == 3
\* number of directory entries returned by fs.readdirSync(srcDir)
NumFiles == 2
\* pixel dimensions reported by `identify` for the rendered page
PageW == 3
PageH == 4

Draws == 0 .. (Den - 1)
\* batch probabilities: never, sometimes, always
Percs == {0, 1, Den}

(* ------------------------------ paths ---------------------------------- *)
\* path.join(os.tmpdir(), `${name}_<suffix>`): name is the document, a is the
\* cluster index of the stripes effect (0 for every other file)
TmpPath(name, suffix, a) == <<name, suffix, a>>

NoPath == <<0, "none", 0>>

\* the files in the temp directory that were created for document `name`
DocFiles(fs, name) == {f \in fs : f[1] = name}

(* ------------------------ file-system primitives ----------------------- *)
\* execFileSync(IM, [in..., out]): reads `ins`, writes `out` (NoPath for
\* `identify` / `info:` queries, which write nothing)
Exec(ins, out) == [k |-> "exec", ins |-> ins, out |-> out]
\* fs.writeFileSync(p, ...)
WriteFile(p) == [k |-> "exec", ins |-> {}, out |-> p]
\* fs.unlinkSync(p)
Unlink(p) == [k |-> "unlink", ins |-> {p}, out |-> NoPath]

\* Runs the calls of ops from index i on; call number failAt throws (the
\* engine exits non-zero, or the fs call fails), a call on a missing file
\* throws; a throw ends the run with err = TRUE and the files as they are.
\* wr collects the paths written so far.
RECURSIVE RunFrom(_, _, _, _, _)
RunFrom(ops, i, fs, wr, failAt) ==
  IF i > Len(ops) THEN [files |-> fs, err |-> FALSE, wrote |-> wr]
  ELSE IF i = failAt \/ ~(ops[i].ins \subseteq fs) THEN [files |-> fs, err |-> TRUE, wrote |-> wr]
  ELSE IF ops[i].k = "unlink" THEN RunFrom(ops, i + 1, fs \ ops[i].ins, wr, failAt)
  ELSE IF ops[i].out = NoPath THEN RunFrom(ops, i + 1, fs, wr, failAt)
  ELSE RunFrom(ops, i + 1, fs \cup {ops[i].out}, wr \cup {ops[i].out}, failAt)

RunOps(ops, fs, failAt) == RunFrom(ops, 1, fs, {}, failAt)

\* what an effect hands back: the returned handle, the temp directory, and
\* whether it threw (then nothing is returned and the caller keeps its handle)
Returned(p, run, curIn, n) ==
  [cur |-> IF run.err THEN curIn ELSE p, files |-> run.files, err |-> run.err,
   wrote |-> run.wrote, drawn |-> IF run.err THEN 0 ELSE n]

\* the early `return cur` of an effect: nothing is read or written
Skipped(curIn, fs) ==
  [cur |-> curIn, files |-> fs, err |-> FALSE, wrote |-> {}, drawn |-> 0]

(* ------------------------------ effects -------------------------------- *)
\* fractions (densities, coverage) are numerators over FracDen
FracDen == Den * Den

\* the warp without the unlink of the padded intermediate
WarpOps_KeepPad(c, name) ==
  LET padPath == TmpPath(name, "warp_pad", 0)
      outPath == TmpPath(name, "warp", 0)
  IN  << Exec({c}, NoPath), Exec({c}, padPath), Exec({padPath}, NoPath),
         Exec({padPath}, outPath), Unlink(c) >>

\* faxSim_effect_warp.js
WarpOps(c, name) ==
  LET padPath == TmpPath(name, "warp_pad", 0)
      outPath == TmpPath(name, "warp", 0)
  IN  << Exec({c}, NoPath), Exec({c}, padPath), Exec({padPath}, NoPath),
         Exec({padPath}, outPath), Unlink(c), Unlink(padPath) >>

applyWarpEffect(c, name, fs, applyWarp, warpBatchPerc, r, failAt) ==
  IF ~applyWarp \/ r > warpBatchPerc THEN Skipped(c, fs)
  ELSE Returned(TmpPath(name, "warp", 0), RunOps(WarpOps(c, name), fs, failAt), c, 1)

\* the rotation without the unlink of its input
RotateOps_KeepInput(c, name) ==
  << Exec({c}, NoPath), Exec({c}, TmpPath(name, "rotated", 0)) >>

\* faxSim_effect_rotate.js
RotateOps(c, name) ==
  << Exec({c}, NoPath), Exec({c}, TmpPath(name, "rotated", 0)), Unlink(c) >>

applyRotateEffect(c, name, fs, applyRotate, rotateBatchPerc, r, failAt) ==
  IF ~applyRotate \/ r > rotateBatchPerc THEN Skipped(c, fs)
  ELSE Returned(TmpPath(name, "rotated", 0), RunOps(RotateOps(c, name), fs, failAt), c, 1)

\* dropoutSize is a numerator over SizeDen (a block side in half pixels)
SizeDen == 2

\* faxSim_effect_dropout.js, createMVG: dropoutSize < 1 ? 1 : Math.floor(dropoutSize)
BlockSize(dropoutSize) == IF dropoutSize < SizeDen THEN 1 ELSE dropoutSize \div SizeDen

\* a block count that divides by the block side instead of the block area
DropoutCount_BlockSide(w, h, dropoutAmount, dropoutSize) ==
  LET blockSize == BlockSize(dropoutSize)
  IN  (w * h * dropoutAmount) \div (FracDen * blockSize)

\* createMVG's block count
DropoutCount(w, h, dropoutAmount, dropoutSize) ==
  LET blockSize == BlockSize(dropoutSize)
  IN  (w * h * dropoutAmount) \div (FracDen * blockSize * blockSize)

\* the dropout without the unlink of its draw script
DropoutOps_KeepMvg(c, name) ==
  LET mvgFile == TmpPath(name, "mvg_dropout", 0)
      outPath == TmpPath(name, "rb", 0)
  IN  << Exec({c}, NoPath), WriteFile(mvgFile), Exec({c, mvgFile}, outPath), Unlink(c) >>

DropoutOps(c, name) ==
  LET mvgFile == TmpPath(name, "mvg_dropout", 0)
      outPath == TmpPath(name, "rb", 0)
  IN  << Exec({c}, NoPath), WriteFile(mvgFile), Exec({c, mvgFile}, outPath),
         Unlink(c), Unlink(mvgFile) >>

\* applyDropoutEffect on an image for which `identify` reports w x h
DropoutOnPage(c, name, fs, w, h, dropoutAmount, dropoutSize, dropoutBatchPerc, r, failAt) ==
  LET count == DropoutCount(w, h, dropoutAmount, dropoutSize)
  IN  IF dropoutBatchPerc < Den /\ r > dropoutBatchPerc THEN Skipped(c, fs)
      ELSE IF count < 1
           THEN Returned(c, RunOps(<< Exec({c}, NoPath) >>, fs, failAt), c, 0)
           ELSE Returned(TmpPath(name, "rb", 0), RunOps(DropoutOps(c, name), fs, failAt), c, count)

applyDropoutEffect(c, name, fs, dropoutAmount, dropoutSize, dropoutBatchPerc, r, failAt) ==
  DropoutOnPage(c, name, fs, PageW, PageH, dropoutAmount, dropoutSize, dropoutBatchPerc, r, failAt)

\* faxSim_effect_tileshift.js
applyTileshiftEffect(c, name, fs, batchPerc, r, amountTiles, failAt) ==
  IF batchPerc < Den /\ r > batchPerc THEN Skipped(c, fs)
  ELSE Returned(TmpPath(name, "tiles", 0), RunOps(<< Exec({c}, NoPath), Exec({c}, TmpPath(name, "tiles", 0)), Unlink(c) >>,
                       fs, failAt),
                c, IF amountTiles > 0 THEN amountTiles ELSE 0)

\* faxSim_effect_noiseW.js: createSpeckleMVG's point count
SpeckleCount(w, h, density) == (w * h * density) \div FracDen

NoiseWOps(c, name) ==
  LET mvg == TmpPath(name, "mvg_noiseW", 0)
      out == TmpPath(name, "noiseW", 0)
  IN  << Exec({c}, NoPath), WriteFile(mvg), Exec({c, mvg}, out), Unlink(c), Unlink(mvg) >>

\* applyNoiseWEffect on an image for which `identify` reports w x h
NoiseWOnPage(c, name, fs, w, h, batchPerc, r, density, failAt) ==
  LET count == SpeckleCount(w, h, density)
  IN  IF batchPerc < Den /\ r > batchPerc THEN Skipped(c, fs)
      ELSE IF count < 1
           THEN Returned(c, RunOps(<< Exec({c}, NoPath) >>, fs, failAt), c, 0)
           ELSE Returned(TmpPath(name, "noiseW", 0), RunOps(NoiseWOps(c, name), fs, failAt), c, count)

applyNoiseWEffect(c, name, fs, batchPerc, r, density, failAt) ==
  NoiseWOnPage(c, name, fs, PageW, PageH, batchPerc, r, density, failAt)

\* faxSim_effect_raster.js
applyRasterEffect(c, name, fs, batchPerc, r, failAt) ==
  IF batchPerc < Den /\ r > batchPerc THEN Skipped(c, fs)
  ELSE Returned(TmpPath(name, "raster", 0), RunOps(<< Exec({c}, TmpPath(name, "raster", 0)), Unlink(c) >>, fs, failAt), c, 1)

\* faxSim_effect_stripes.js: speckles per cluster, floor(PI*halfW*halfH*density)
PixelCount(areaWidthPx, areaHeightPx, density) ==
  LET halfW == areaWidthPx \div 2
      halfH == areaHeightPx \div 2
  IN  (31416 * halfW * halfH * density) \div (10000 * FracDen)

\* the calls of cluster a and of the clusters after it; `composite` is the
\* accumulating page image the cluster is composited onto
\* a cluster whose speckle image stays on disk after the smear
OneClusterOps_KeepSpeck(name, a, composite, applySmear) ==
  LET mvgPath == TmpPath(name, "stripes_blob.mvg", a)
      base    == TmpPath(name, "stripes_blob_base", a)
      speck   == TmpPath(name, "stripes_blob_speck", a)
      smeared == TmpPath(name, "stripes_blob_smear", a)
      layer   == IF applySmear THEN smeared ELSE speck
      next    == TmpPath(name, "stripes_blob_comp", a)
  IN  << WriteFile(mvgPath), Exec({}, base), Exec({base, mvgPath}, speck),
         Unlink(base), Unlink(mvgPath) >>
      \o (IF applySmear THEN << Exec({speck}, smeared) >> ELSE << >>)
      \o << Exec({composite, layer}, next), Unlink(composite), Unlink(layer) >>

\* the calls of one pass of the cluster loop, for a cluster that is drawn
OneClusterOps(name, a, composite, applySmear) ==
  LET mvgPath == TmpPath(name, "stripes_blob.mvg", a)
      base    == TmpPath(name, "stripes_blob_base", a)
      speck   == TmpPath(name, "stripes_blob_speck", a)
      smeared == TmpPath(name, "stripes_blob_smear", a)
      layer   == IF applySmear THEN smeared ELSE speck
      next    == TmpPath(name, "stripes_blob_comp", a)
  IN  << WriteFile(mvgPath), Exec({}, base), Exec({base, mvgPath}, speck),
         Unlink(base), Unlink(mvgPath) >>
      \o (IF applySmear THEN << Exec({speck}, smeared), Unlink(speck) >> ELSE << >>)
      \o << Exec({composite, layer}, next), Unlink(composite), Unlink(layer) >>

RECURSIVE ClusterOps(_, _, _, _, _)
ClusterOps(name, a, areasAmount, composite, applySmear) ==
  IF a >= areasAmount THEN << >>
  ELSE OneClusterOps(name, a, composite, applySmear)
       \o ClusterOps(name, a + 1, areasAmount, TmpPath(name, "stripes_blob_comp", a), applySmear)

\* the clusters that are drawn: pixelCount is the same for every cluster
Clusters(areasAmount, areaWidthPx, areaHeightPx, density) ==
  IF PixelCount(areaWidthPx, areaHeightPx, density) < 1 \/ areasAmount < 1 THEN 0 ELSE areasAmount

\* every call applyStripesEffect makes once past its gate
StripesOps(c, name, areasAmount, areaWidthPx, areaHeightPx, density, applySmear) ==
  << Exec({c}, NoPath) >>
  \o ClusterOps(name, 0, Clusters(areasAmount, areaWidthPx, areaHeightPx, density), c, applySmear)

applyStripesEffect(c, name, fs, batchPerc, r, areasAmount, areaWidthPx, areaHeightPx, density, applySmear, failAt) ==
  LET clusters   == Clusters(areasAmount, areaWidthPx, areaHeightPx, density)
      ops        == StripesOps(c, name, areasAmount, areaWidthPx, areaHeightPx, density, applySmear)
      composite  == IF clusters = 0 THEN c ELSE TmpPath(name, "stripes_blob_comp", clusters - 1)
  IN  IF batchPerc < Den /\ r > batchPerc THEN Skipped(c, fs)
      ELSE Returned(composite, RunOps(ops, fs, failAt), c, clusters)

\* faxSim_effect_stripesW.js: sharp metadata of curPath, blur of the noise
\* buffer, composite of the loaded image, fs.promises.writeFile(curPath);
\* the function is async and each of these is awaited
StripesWOps(curPath) ==
  << Exec({curPath}, NoPath), Exec({}, NoPath), Exec({curPath}, NoPath), WriteFile(curPath) >>

applyStripesWEffect(curPath, name, fs, batchPerc, r, amount, failAt) ==
  Returned(curPath, RunOps(StripesWOps(curPath), fs, failAt), curPath,
           IF amount > 0 THEN amount ELSE 0)

(* --------------------------- configuration ----------------------------- *)
\* the effect keys of faxSim.js; cfg.on holds the keys whose toggle
\* (applyWarp, applyRotate, rotateMirror, applyStripesW, ...) is true
Toggles == {"warp", "rotate", "rotatemirror", "stripesw", "alpha", "gray", "blur",
            "stripes", "rasterization", "dither", "noisew", "rastereffect",
            "finalthreshold", "dropout", "tileshift"}

\* the keys that have a batch probability in faxSim.ini
Gated == {"warp", "rotate", "rotatemirror", "stripesw", "blur", "stripes",
          "noisew", "rastereffect", "dropout", "tileshift"}

\* a min/max key that is absent from the ini reads as undefined
Undef == -1

\* parameter sets: one where every effect has something to draw, one where
\* every count is zero, Group4 compression is switched off and the default
\* blur radius is outside its min/max range, one without min/max keys
ParamChoices ==
  { [dropoutAmount |-> 1, dropoutAmountMin |-> 1, dropoutAmountMax |-> 2, dropoutSize |-> 1,
     noiseWDensity |-> 1, noiseWDensityMin |-> 1, noiseWDensityMax |-> 2,
     stripesAreasAmount |-> 2, stripesAreaWidthPx |-> 2, stripesAreaHeightPx |-> 2,
     stripesDensity |-> 1, stripesDensityMin |-> 1, stripesDensityMax |-> 2,
     applyStripesSmear |-> TRUE,
     amountTiles |-> 1, amountTilesMin |-> 0, amountTilesMax |-> 1,
     stripesWAmount |-> 1, rotateMirrorArray |-> << "180" >>, applyG4Compress |-> TRUE,
     warpOffsetPx |-> -1, warpOffsetMinPx |-> -2, warpOffsetMaxPx |-> 2,
     rotateMin |-> -2, rotateMax |-> 5,
     blurRadius |-> 1, blurRadMin |-> 1, blurRadMax |-> 2],
    [dropoutAmount |-> 0, dropoutAmountMin |-> 0, dropoutAmountMax |-> 0, dropoutSize |-> 4,
     noiseWDensity |-> 0, noiseWDensityMin |-> 0, noiseWDensityMax |-> 0,
     stripesAreasAmount |-> 2, stripesAreaWidthPx |-> 1, stripesAreaHeightPx |-> 2,
     stripesDensity |-> 1, stripesDensityMin |-> 1, stripesDensityMax |-> 1,
     applyStripesSmear |-> TRUE,
     amountTiles |-> 0, amountTilesMin |-> 0, amountTilesMax |-> 0,
     stripesWAmount |-> 0, rotateMirrorArray |-> << "vertical", "diagonal" >>,
     applyG4Compress |-> FALSE,
     warpOffsetPx |-> 0, warpOffsetMinPx |-> 0, warpOffsetMaxPx |-> 0,
     rotateMin |-> 0, rotateMax |-> 0,
     blurRadius |-> 3, blurRadMin |-> 1, blurRadMax |-> 2],
    [dropoutAmount |-> 2, dropoutAmountMin |-> Undef, dropoutAmountMax |-> Undef, dropoutSize |-> 0,
     noiseWDensity |-> 1, noiseWDensityMin |-> Undef, noiseWDensityMax |-> Undef,
     stripesAreasAmount |-> 1, stripesAreaWidthPx |-> 2, stripesAreaHeightPx |-> 3,
     stripesDensity |-> 2, stripesDensityMin |-> Undef, stripesDensityMax |-> Undef,
     applyStripesSmear |-> FALSE,
     amountTiles |-> 2, amountTilesMin |-> Undef, amountTilesMax |-> Undef,
     stripesWAmount |-> 1, rotateMirrorArray |-> << >>, applyG4Compress |-> TRUE,
     warpOffsetPx |-> 1, warpOffsetMinPx |-> 1, warpOffsetMaxPx |-> 1,
     rotateMin |-> 1, rotateMax |-> 1,
     blurRadius |-> 0, blurRadMin |-> 0, blurRadMax |-> 0] }

\* parseIniFile: the configurations a run can start from; the toggles and
\* the debug exclusions include those of faxSim.ini as shipped (every
\* toggle but rasterization and rastereffect; rotate, rasterization and
\* rastereffect excluded)
CfgChoices ==
  { [on |-> o, perc |-> [k \in Gated |-> p], debugPipeline |-> d[1], debugSkip |-> d[2], par |-> q] :
      o \in ({Toggles, (Toggles \ {"rasterization", "rastereffect"}), {}} \cup {{k} : k \in Toggles} \cup {{"rotate", "rotatemirror"}}), p \in Percs, d \in ({<<FALSE, {}>>, <<TRUE, {}>>, <<TRUE, {"rotate", "rasterization", "rastereffect"}>>, <<TRUE, Toggles>>}), q \in ParamChoices }

NoCfg ==
  [on |-> {}, perc |-> [k \in Gated |-> 0], debugPipeline |-> FALSE, debugSkip |-> {},
   par |-> CHOOSE q \in ParamChoices : q.stripesWAmount = 0]

NoCall == [eff |-> "none"]

\* dstDir before the run: per document, the -compress modes of the writes
\* of <name>.tif so far
NoOutputs == [d \in 1 .. NumFiles |-> << >>]

SwIdle == [step |-> 0, curPath |-> NoPath]

\* state when the async main function is entered; fs.readdirSync(srcDir)
\* lists PDFs, possibly after an entry that is not a PDF
Init ==
  /\ cfg \in CfgChoices
  /\ srcFiles \in ({s \in [1 .. NumFiles -> {"pdf", "other"}] : \A i \in 2 .. NumFiles : s[i] = "pdf"})
  /\ fileIdx = 1
  /\ pc = "loop"
  /\ cur = NoPath
  /\ files = {}
  /\ outputs = NoOutputs
  /\ isFirstPdf = TRUE
  /\ currentDebug = FALSE
  /\ trace = << >>
  /\ snaps = {}
  /\ logs = {}
  /\ sw = SwIdle
  /\ threw = FALSE
  /\ call = NoCall

(* ---------------------------- orchestrator ----------------------------- *)
\* path.parse(file).name: the document is named by its directory entry
name == fileIdx

\* a stage toggle that ignores the debug exclusion list
StageOn_IgnoreSkip(key) == key \in cfg.on

\* cfg.applyX && (!isDebugRun || !debugSkip.includes(key))
StageOn(key) == key \in cfg.on /\ (~currentDebug \/ key \notin cfg.debugSkip)

\* a batch probability that the debug run does not force to 1
BatchPerc_Configured(key) == cfg.perc[key]

\* isDebugRun ? 1 : cfg.xBatchPerc
BatchPerc(key) == IF currentDebug THEN Den ELSE cfg.perc[key]

\* isDebugRun ? fixed : min + Math.random() * (max - min), over FracDen; the
\* fixed value too when a min/max key is undefined (stripes, noiseW, dropout)
Resolve(fixed, min, max, r) ==
  IF currentDebug \/ min = Undef \/ max = Undef THEN fixed * Den
  ELSE min * Den + r * (max - min)

\* a tile count drawn from one value more than the range holds
ResolveTiles_Wide(fixed, min, max, r) ==
  IF currentDebug \/ min = Undef \/ max = Undef THEN fixed
  ELSE min + ((r * (max - min + 2)) \div Den)

\* amountTilesMin + Math.floor(Math.random() * (max - min + 1))
ResolveTiles(fixed, min, max, r) ==
  IF currentDebug \/ min = Undef \/ max = Undef THEN fixed
  ELSE min + ((r * (max - min + 1)) \div Den)

\* the value of Resolve / ResolveTiles was drawn from the min/max range
Sampled(min, max) == ~currentDebug /\ min # Undef /\ max # Undef

\* the warp offset: isDebugRun ? cfg.warpOffsetPx : min + Math.random() * (max - min),
\* over FracDen
ResolveWarp(fixed, min, max, r) ==
  IF currentDebug THEN fixed * Den ELSE min * Den + r * (max - min)

\* the blur radius, over FracDen: cfg.blurRadius, replaced by a draw from
\* the range when !isDebugRun && Math.random() < blurPerc (draw rb)
BlurSampled(rb) == ~currentDebug /\ rb < cfg.perc["blur"]
ResolveBlur(fixed, min, max, rb, r) ==
  IF BlurSampled(rb) THEN min * Den + r * (max - min) ELSE fixed * Den

\* applyRotateEffect: angle = rotateMin + Math.random() * (rotateMax - rotateMin),
\* over FracDen
RotateAngle(rotateMin, rotateMax, r) == rotateMin * Den + r * (rotateMax - rotateMin)

\* dbgLog(stage, msg)
dbgLog(stage) == IF currentDebug THEN logs \cup {<<name, stage>>} ELSE logs

\* dbgSnap(stage, curPath, name)
dbgSnap(stage) == IF currentDebug THEN snaps \cup {<<name, stage>>} ELSE snaps

\* number of the throwing call within a stage (0: no call throws)
MaxFail == 4
FailPoints == 0 .. MaxFail

\* an exception caught inside the loop body, the loop going on
ThrowPc_Caught == "loop"

\* an uncaught exception rejects the promise of the async main function
ThrowPc == "halted"

\* the stage's block was entered and its transform returned res (or threw)
StageDone(stage, res, nxt) ==
  /\ trace' = Append(trace, stage)
  /\ logs' = dbgLog(stage)
  /\ files' = res.files
  /\ threw' = (threw \/ res.err)
  /\ IF res.err
       THEN /\ pc' = ThrowPc
            /\ UNCHANGED <<cur, snaps, fileIdx>>
       ELSE /\ pc' = nxt
            /\ cur' = res.cur
            /\ snaps' = dbgSnap(stage)
            /\ UNCHANGED fileIdx
  /\ UNCHANGED <<cfg, srcFiles, outputs, isFirstPdf, currentDebug, sw>>

\* a stage whose transform is an engine call made by the orchestrator itself
StageRun(stage, res, nxt) ==
  /\ StageDone(stage, res, nxt)
  /\ UNCHANGED call

\* the orchestrator's call of an effect module: gated tells whether the call
\* sits behind the orchestrator's own `Math.random() < perc`, batchPerc is the
\* batch probability handed to the effect
EffectCalled(stage, gated, batchPerc) == [eff |-> stage, gated |-> gated, batchPerc |-> batchPerc]

\* a stage whose transform is an effect module
EffectRun(stage, gated, batchPerc, res, nxt) ==
  /\ StageDone(stage, res, nxt)
  /\ call' = EffectCalled(stage, gated, batchPerc)

\* a call that is handed a parameter: param is its value, sampled tells
\* whether it was drawn from a min/max range
ParamCalled(stage, gated, batchPerc, param, sampled) ==
  [eff |-> stage, gated |-> gated, batchPerc |-> batchPerc, param |-> param, sampled |-> sampled]

\* a stage whose transform is handed a parameter
ParamRun(stage, gated, batchPerc, param, sampled, res, nxt) ==
  /\ StageDone(stage, res, nxt)
  /\ call' = ParamCalled(stage, gated, batchPerc, param, sampled)

\* the stage's `if` was false: nothing happens
StageSkip(nxt) ==
  /\ pc' = nxt
  /\ UNCHANGED <<cfg, srcFiles, fileIdx, cur, files, outputs, isFirstPdf,
                 currentDebug, trace, snaps, logs, sw, threw, call>>

\* a transform that writes its result beside cur and deletes cur
InPlace_NewFile(c, fs, failAt) ==
  Returned(TmpPath(c[1], "inplace", 0),
           RunOps(<< Exec({c}, TmpPath(c[1], "inplace", 0)), Unlink(c) >>, fs, failAt), c, 1)

\* execFileSync(IM, [cur, ..., cur]): a transform that rewrites cur in place
InPlace(c, fs, failAt) == Returned(c, RunOps(<< Exec({c}, c) >>, fs, failAt), c, 1)

\* for (const file of fs.readdirSync(srcDir)): a non-PDF entry is skipped
SkipFile ==
  /\ pc = "loop"
  /\ fileIdx <= NumFiles
  /\ srcFiles[fileIdx] # "pdf"
  /\ fileIdx' = fileIdx + 1
  /\ UNCHANGED <<cfg, srcFiles, pc, cur, files, outputs, isFirstPdf, currentDebug,
                 trace, snaps, logs, sw, threw, call>>

\* the loop is over: the async function returns
Finish ==
  /\ pc = "loop"
  /\ fileIdx > NumFiles
  /\ pc' = "done"
  /\ UNCHANGED <<cfg, srcFiles, fileIdx, cur, files, outputs, isFirstPdf, currentDebug,
                 trace, snaps, logs, sw, threw, call>>

\* a debug flag that is not limited to the first PDF
DebugThisRun_EveryPdf == cfg.debugPipeline

\* currentDebug = DEBUG_PIPELINE && isFirstPdf
DebugThisRun == cfg.debugPipeline /\ isFirstPdf

\* 1) Render PDF page to PNG
Render ==
  /\ pc = "loop"
  /\ fileIdx <= NumFiles
  /\ srcFiles[fileIdx] = "pdf"
  /\ \E failAt \in {0, 1} :
       LET dbg  == DebugThisRun
           base == TmpPath(name, "base", 0)
           res  == Returned(base, RunOps(<< Exec({}, base) >>, files, failAt), cur, 1)
       IN  /\ currentDebug' = dbg
           /\ trace' = << "render" >>
           /\ logs' = IF dbg THEN logs \cup {<<name, "render">>} ELSE logs
           /\ files' = res.files
           /\ cur' = base
           /\ threw' = (threw \/ res.err)
           /\ IF res.err
                THEN pc' = ThrowPc /\ UNCHANGED snaps
                ELSE /\ pc' = "warp"
                     /\ snaps' = IF dbg THEN snaps \cup {<<name, "render">>} ELSE snaps
  /\ call' = NoCall
  /\ UNCHANGED <<cfg, srcFiles, fileIdx, outputs, isFirstPdf, sw>>

\* 2) Warp
Warp ==
  /\ pc = "warp"
  /\ IF StageOn("warp")
       THEN \E r \in Draws :
              IF r < BatchPerc("warp")
              THEN \E rd \in Draws, re \in Draws, failAt \in FailPoints :
                     LET offsetPx == ResolveWarp(cfg.par.warpOffsetPx, cfg.par.warpOffsetMinPx,
                                                 cfg.par.warpOffsetMaxPx, rd)
                     IN  ParamRun("warp", TRUE, Den, offsetPx, ~currentDebug,
                                  applyWarpEffect(cur, name, files, TRUE, Den, re, failAt), "rotate")
              ELSE StageSkip("rotate")
       ELSE StageSkip("rotate")

\* 3) Rotate
Rotate ==
  /\ pc = "rotate"
  /\ IF StageOn("rotate")
       THEN \E r \in Draws :
              IF r < BatchPerc("rotate")
              THEN \E re \in Draws, ra \in Draws, failAt \in FailPoints :
                     ParamRun("rotate", TRUE, BatchPerc("rotate"),
                              RotateAngle(cfg.par.rotateMin, cfg.par.rotateMax, ra), TRUE,
                              applyRotateEffect(cur, name, files, TRUE, BatchPerc("rotate"), re, failAt),
                              "rotatemirror")
              ELSE StageSkip("stripesw")
       ELSE StageSkip("stripesw")

\* Mirror after rotate (inside the rotate block)
Mirror ==
  /\ pc = "rotatemirror"
  /\ IF StageOn("rotatemirror")
       THEN \E r \in Draws :
              IF r < BatchPerc("rotatemirror")
              THEN \E rm \in Draws, failAt \in {0, 1} :
                     LET modes == cfg.par.rotateMirrorArray
                         mode  == IF Len(modes) = 0 THEN "undefined"
                                  ELSE modes[((rm * Len(modes)) \div Den) + 1]
                     IN  IF mode \in {"vertical", "horizontal", "horizontal+vertical", "180"}
                         THEN StageRun("rotatemirror", InPlace(cur, files, failAt), "stripesw")
                         ELSE StageRun("rotatemirror", Skipped(cur, files), "stripesw")
              ELSE StageSkip("stripesw")
       ELSE StageSkip("stripesw")

\* the call without the await: the loop goes on with the next stage
StripesWCallPc_NoAwait == "alpha"

\* `cur = await applyStripesWEffect(...)`: the loop is suspended until the
\* promise of the effect settles
StripesWCallPc == "stripesw_await"

\* 3b) White Stripes: the call; the effect itself takes no batch probability
\* into account, its body runs in StripesWStep
StripesW ==
  /\ pc = "stripesw"
  /\ IF StageOn("stripesw")
       THEN \E r \in Draws :
              IF r < BatchPerc("stripesw")
              THEN /\ trace' = Append(trace, "stripesw")
                   /\ logs' = dbgLog("stripesw")
                   /\ sw' = [step |-> 1, curPath |-> cur]
                   /\ pc' = StripesWCallPc
                   /\ call' = EffectCalled("stripesw", TRUE, Den)
                   /\ UNCHANGED <<cfg, srcFiles, fileIdx, cur, files, outputs, isFirstPdf,
                                  currentDebug, snaps, threw>>
              ELSE StageSkip("alpha")
       ELSE StageSkip("alpha")

\* one awaited step of applyStripesWEffect (step 5: fulfilled, 6: rejected)
StripesWStep ==
  /\ sw.step \in 1 .. 4
  /\ \E failAt \in {0, 1} :
       LET run == RunOps(<< StripesWOps(sw.curPath)[sw.step] >>, files, failAt)
       IN  /\ files' = run.files
           /\ sw' = [sw EXCEPT !.step = IF run.err THEN 6 ELSE IF sw.step = 4 THEN 5 ELSE sw.step + 1]
  /\ UNCHANGED <<cfg, srcFiles, fileIdx, pc, cur, outputs, isFirstPdf, currentDebug,
                 trace, snaps, logs, threw, call>>

\* the await resumes with the promise's value, or throws its rejection
StripesWResume ==
  /\ pc = "stripesw_await"
  /\ sw.step \in {5, 6}
  /\ sw' = SwIdle
  /\ threw' = (threw \/ sw.step = 6)
  /\ IF sw.step = 6
       THEN pc' = ThrowPc /\ UNCHANGED <<cur, snaps>>
       ELSE /\ pc' = "alpha"
            /\ cur' = sw.curPath
            /\ snaps' = dbgSnap("stripesw")
  /\ UNCHANGED <<cfg, srcFiles, fileIdx, files, outputs, isFirstPdf, currentDebug,
                 trace, logs, call>>

\* an ungated in-place stage: alpha, gray, rasterization, dither, finalthreshold
InPlaceStage(key, nxt) ==
  /\ pc = key
  /\ IF StageOn(key)
       THEN \E failAt \in {0, 1} : StageRun(key, InPlace(cur, files, failAt), nxt)
       ELSE StageSkip(nxt)

\* 4) Strip alpha channel and flatten
Alpha == InPlaceStage("alpha", "gray")

\* the grayscale block placed before the alpha block
Gray_BeforeAlpha == InPlaceStage("gray", "alpha")

\* 5) Convert to grayscale
Gray == InPlaceStage("gray", "blur")

\* 6) Gaussian blur: the batch probability only selects the radius
Blur ==
  /\ pc = "blur"
  /\ IF StageOn("blur")
       THEN \E rb \in Draws, rd \in Draws, failAt \in {0, 1} :
              ParamRun("blur", FALSE, BatchPerc("blur"),
                       ResolveBlur(cfg.par.blurRadius, cfg.par.blurRadMin, cfg.par.blurRadMax, rb, rd),
                       BlurSampled(rb), InPlace(cur, files, failAt), "stripes")
       ELSE StageSkip("stripes")

\* 7) Stripes effect (black); called with batch probability 1, the effect
\* makes no draw of its own (batchPerc < 1 && ... short-circuits)
Stripes ==
  /\ pc = "stripes"
  /\ IF StageOn("stripes")
       THEN \E r \in Draws :
              IF r < BatchPerc("stripes")
              THEN \E rd \in Draws, failAt \in FailPoints :
                     LET density == Resolve(cfg.par.stripesDensity, cfg.par.stripesDensityMin,
                                            cfg.par.stripesDensityMax, rd)
                     IN  ParamRun("stripes", TRUE, Den, density,
                                  Sampled(cfg.par.stripesDensityMin, cfg.par.stripesDensityMax),
                                  applyStripesEffect(cur, name, files, Den, 0,
                                                     cfg.par.stripesAreasAmount,
                                                     cfg.par.stripesAreaWidthPx,
                                                     cfg.par.stripesAreaHeightPx,
                                                     density, cfg.par.applyStripesSmear, failAt),
                                  "rasterization")
              ELSE StageSkip("rasterization")
       ELSE StageSkip("rasterization")

\* 8) Rasterization to ordered dither
Rasterization == InPlaceStage("rasterization", "dither")

\* 9) Error-diffusion dither
Dither == InPlaceStage("dither", "noisew")

\* 10) White-speckle noise effect
NoiseW ==
  /\ pc = "noisew"
  /\ IF StageOn("noisew")
       THEN \E r \in Draws :
              IF r < BatchPerc("noisew")
              THEN \E rd \in Draws, failAt \in FailPoints :
                     LET density == Resolve(cfg.par.noiseWDensity, cfg.par.noiseWDensityMin,
                                            cfg.par.noiseWDensityMax, rd)
                     IN  ParamRun("noisew", TRUE, Den, density,
                                  Sampled(cfg.par.noiseWDensityMin, cfg.par.noiseWDensityMax),
                                  applyNoiseWEffect(cur, name, files, Den, 0, density, failAt),
                                  "rastereffect")
              ELSE StageSkip("rastereffect")
       ELSE StageSkip("rastereffect")

\* 11) Optional standalone raster effect: gated by the effect only
RasterEffect ==
  /\ pc = "rastereffect"
  /\ IF StageOn("rastereffect")
       THEN \E re \in Draws, failAt \in FailPoints :
              EffectRun("rastereffect", FALSE, BatchPerc("rastereffect"),
                       applyRasterEffect(cur, name, files, BatchPerc("rastereffect"), re, failAt),
                       "finalthreshold")
       ELSE StageSkip("finalthreshold")

\* 12) Final threshold before 1-bit
FinalThreshold == InPlaceStage("finalthreshold", "dropout")

\* 13) Dropout effect
Dropout ==
  /\ pc = "dropout"
  /\ IF StageOn("dropout")
       THEN \E r \in Draws :
              IF r < BatchPerc("dropout")
              THEN \E rd \in Draws, failAt \in FailPoints :
                     LET amount == Resolve(cfg.par.dropoutAmount, cfg.par.dropoutAmountMin,
                                           cfg.par.dropoutAmountMax, rd)
                     IN  ParamRun("dropout", TRUE, Den, amount,
                                  Sampled(cfg.par.dropoutAmountMin, cfg.par.dropoutAmountMax),
                                  applyDropoutEffect(cur, name, files, amount,
                                                     cfg.par.dropoutSize * SizeDen, Den, 0, failAt),
                                  "tileshift")
              ELSE StageSkip("tileshift")
       ELSE StageSkip("tileshift")

\* 14) Tile-shift effect
Tileshift ==
  /\ pc = "tileshift"
  /\ IF StageOn("tileshift")
       THEN \E r \in Draws :
              IF r < BatchPerc("tileshift")
              THEN \E rd \in Draws, failAt \in FailPoints :
                     LET amt == ResolveTiles(cfg.par.amountTiles, cfg.par.amountTilesMin,
                                             cfg.par.amountTilesMax, rd)
                     IN  ParamRun("tileshift", TRUE, Den, amt,
                                  Sampled(cfg.par.amountTilesMin, cfg.par.amountTilesMax),
                                  applyTileshiftEffect(cur, name, files, Den, 0, amt, failAt),
                                  "compress")
              ELSE StageSkip("compress")
       ELSE StageSkip("compress")

\* execFileSync(IM, [cur, '-monochrome', '-compress', 'Group4', output])
CompressMode == "Group4"

\* 15) Compress to Group4 TIFF: writes <name>.tif into dstDir
Compress ==
  /\ pc = "compress"
  /\ trace' = Append(trace, "compress")
  /\ logs' = dbgLog("compress")
  /\ \E failAt \in {0, 1} :
       IF failAt = 1 \/ cur \notin files
       THEN pc' = ThrowPc /\ threw' = TRUE /\ UNCHANGED <<outputs, snaps>>
       ELSE /\ pc' = "cleanup"
            /\ UNCHANGED threw
            /\ outputs' = [outputs EXCEPT ![name] = Append(@, CompressMode)]
            /\ snaps' = dbgSnap("compress")
  /\ UNCHANGED <<cfg, srcFiles, fileIdx, cur, files, isFirstPdf, currentDebug, sw, call>>

\* 16) Cleanup intermediate PNG, then the first-PDF flag is cleared
Cleanup ==
  /\ pc = "cleanup"
  /\ trace' = Append(trace, "cleanup")
  /\ logs' = dbgLog("cleanup")
  /\ \E failAt \in {0, 1} :
       LET run == RunOps(<< Unlink(cur) >>, files, failAt)
       IN  /\ files' = run.files
           /\ threw' = (threw \/ run.err)
           /\ IF run.err
                THEN pc' = ThrowPc /\ UNCHANGED <<fileIdx, isFirstPdf, currentDebug>>
                ELSE /\ pc' = "loop"
                     /\ fileIdx' = fileIdx + 1
                     /\ isFirstPdf' = FALSE
                     /\ currentDebug' = IF isFirstPdf THEN FALSE ELSE currentDebug
  /\ UNCHANGED <<cfg, srcFiles, cur, outputs, snaps, sw, call>>

Next ==
  \/ SkipFile \/ Finish \/ Render \/ Warp \/ Rotate \/ Mirror
  \/ StripesW \/ StripesWStep \/ StripesWResume
  \/ Alpha \/ Gray \/ Blur \/ Stripes \/ Rasterization \/ Dither \/ NoiseW
  \/ RasterEffect \/ FinalThreshold \/ Dropout \/ Tileshift \/ Compress \/ Cleanup

Spec == Init /\ [][Next]_vars

(* ------------------- effect modules called on their own ---------------- *)

\* one call: the effect, its input handle (the rendered page or an earlier
\* effect's output), its batch probability, the value its Math.random()
\* returns, its parameters, and the call that throws
CallChoices ==
  { [eff |-> e, cur |-> c, batchPerc |-> p, r |-> r, par |-> q, failAt |-> f,
     wrote |-> {}, drawn |-> 0] :
      e \in {"warp", "rotate", "dropout", "tileshift", "stripes", "stripesw", "noisew", "rastereffect"}, c \in ({TmpPath(1, s, 0) : s \in {"base", "warp", "rotated", "rb", "tiles", "noiseW", "raster", "stripes_blob_comp"}}), p \in Percs, r \in Draws,
      q \in ParamChoices, f \in {0, 1} }

\* the effect of call k on the temp directory fs
EffectResult(k, fs) ==
  CASE k.eff = "warp" ->
         applyWarpEffect(k.cur, 1, fs, TRUE, k.batchPerc, k.r, k.failAt)
    [] k.eff = "rotate" ->
         applyRotateEffect(k.cur, 1, fs, TRUE, k.batchPerc, k.r, k.failAt)
    [] k.eff = "dropout" ->
         applyDropoutEffect(k.cur, 1, fs, k.par.dropoutAmount * Den, k.par.dropoutSize * SizeDen,
                            k.batchPerc, k.r, k.failAt)
    [] k.eff = "tileshift" ->
         applyTileshiftEffect(k.cur, 1, fs, k.batchPerc, k.r, k.par.amountTiles, k.failAt)
    [] k.eff = "stripes" ->
         applyStripesEffect(k.cur, 1, fs, k.batchPerc, k.r, k.par.stripesAreasAmount,
                            k.par.stripesAreaWidthPx, k.par.stripesAreaHeightPx,
                            k.par.stripesDensity * Den, k.par.applyStripesSmear, k.failAt)
    [] k.eff = "stripesw" ->
         applyStripesWEffect(k.cur, 1, fs, k.batchPerc, k.r, k.par.stripesWAmount, k.failAt)
    [] k.eff = "noisew" ->
         applyNoiseWEffect(k.cur, 1, fs, k.batchPerc, k.r, k.par.noiseWDensity * Den, k.failAt)
    [] k.eff = "rastereffect" ->
         applyRasterEffect(k.cur, 1, fs, k.batchPerc, k.r, k.failAt)

\* a temp directory holding the input image, and a call about to be made
InitEffects ==
  /\ call \in CallChoices
  /\ pc = "call"
  /\ cur = call.cur
  /\ files = {call.cur}
  /\ cfg = NoCfg
  /\ srcFiles = [i \in 1 .. NumFiles |-> "pdf"]
  /\ fileIdx = 1
  /\ outputs = NoOutputs
  /\ isFirstPdf = TRUE
  /\ currentDebug = FALSE
  /\ trace = << >>
  /\ snaps = {}
  /\ logs = {}
  /\ sw = SwIdle
  /\ threw = FALSE

\* the call is made: it returns a handle or throws
CallEffect ==
  /\ pc = "call"
  /\ LET res == EffectResult(call, files)
     IN  /\ pc' = IF res.err THEN "threw" ELSE "returned"
         /\ cur' = res.cur
         /\ files' = res.files
         /\ threw' = res.err
         /\ call' = [call EXCEPT !.wrote = res.wrote, !.drawn = res.drawn]
  /\ UNCHANGED <<cfg, srcFiles, fileIdx, outputs, isFirstPdf, currentDebug,
                 trace, snaps, logs, sw>>

SpecEffects == InitEffects /\ [][CallEffect]_vars

(* ------------------- image geometry of warp and rotate ----------------- *)
\* the variables of the orchestrator, which a function called on its own
\* leaves alone
pipelineVars == <<cfg, srcFiles, fileIdx, cur, files, outputs, isFirstPdf,
                  currentDebug, trace, snaps, logs, sw, threw>>

\* no pipeline is running
NoPipeline ==
  /\ cfg = NoCfg
  /\ srcFiles = [i \in 1 .. NumFiles |-> "pdf"]
  /\ fileIdx = 1
  /\ cur = NoPath
  /\ files = {}
  /\ outputs = NoOutputs
  /\ isFirstPdf = TRUE
  /\ currentDebug = FALSE
  /\ trace = << >>
  /\ snaps = {}
  /\ logs = {}
  /\ sw = SwIdle
  /\ threw = FALSE

\* largest page side, in pixels
MaxDim == 3
\* warpFinalScale is a numerator over ScaleDen
ScaleDen == 2

Min(a, b) == IF a < b THEN a ELSE b
Max(a, b) == IF a > b THEN a ELSE b

\* Math.round(n / d) for n >= 0, d > 0
Round(n, d) == (2 * n + d) \div (2 * d)

\* Math.ceil(Math.hypot(w, h))
CeilHypot(w, h) ==
  CHOOSE d \in 0 .. (w + h) : d * d >= w * w + h * h /\ (d = 0 \/ (d - 1) * (d - 1) < w * w + h * h)

\* the size of an image
Size(w, h) == [w |-> w, h |-> h]

\* -extent WxH: the canvas becomes W x H
Extent(img, w, h) == Size(w, h)

\* -distort (not +distort): the canvas keeps its size
Distort(img) == img

\* -crop WxH+X+Y +repage
Crop(img, tw, th) == Size(Min(tw, img.w), Min(th, img.h))

\* -resize WxH: fit inside W x H keeping the aspect ratio; a zero side is
\* unconstrained
Resize(img, bw, bh) ==
  IF bw = 0 /\ bh = 0 THEN img
  ELSE IF bh = 0 \/ (bw # 0 /\ bw * img.h <= bh * img.w)
       THEN Size(bw, Max(1, Round(img.h * bw, img.w)))
       ELSE Size(Max(1, Round(img.w * bh, img.h)), bh)

\* the clamp that only bounds the offset from above
WarpOff2_UpperOnly(w, h, rawOff2) ==
  LET limit2 == Min(w, h) - 2
  IN  Min(limit2, rawOff2)

\* 3. Clamp offset, in half pixels (rawOff2 = 2 * rawOff, limit2 = 2 * limit):
\* limit = min(w, h) / 2 - 1; off = max(-limit, min(limit, rawOff))
WarpOff2(w, h, rawOff2) ==
  LET limit2 == Min(w, h) - 2
  IN  Max(-limit2, Min(limit2, rawOff2))

\* the warp whose last call does not re-centre the content on the page
WarpSize_NoExtent(w, h, warpOffsetPx, warpFinalScale, TW, TH) ==
  LET pad    == CeilHypot(w, h)
      padded == Distort(Extent(Size(w, h), w + 2 * pad, h + 2 * pad))
      byW    == w * TH <= h * TW
      fitN   == IF byW THEN w ELSE h
      fitD   == IF byW THEN TW ELSE TH
      scaleN == IF warpFinalScale = 0 THEN ScaleDen ELSE warpFinalScale
      TW2    == Round(TW * fitN * scaleN, fitD * ScaleDen)
      TH2    == Round(TH * fitN * scaleN, fitD * ScaleDen)
  IN  Resize(Crop(padded, TW, TH), TW2, TH2)

\* faxSim_effect_warp.js steps 2-11: the size of the image written to outPath,
\* for a page of w x h whose warped content has the bounding box TW x TH
WarpSize(w, h, warpOffsetPx, warpFinalScale, TW, TH) ==
  LET pad    == CeilHypot(w, h)
      padded == Distort(Extent(Size(w, h), w + 2 * pad, h + 2 * pad))
      byW    == w * TH <= h * TW
      fitN   == IF byW THEN w ELSE h
      fitD   == IF byW THEN TW ELSE TH
      scaleN == IF warpFinalScale = 0 THEN ScaleDen ELSE warpFinalScale
      TW2    == Round(TW * fitN * scaleN, fitD * ScaleDen)
      TH2    == Round(TH * fitN * scaleN, fitD * ScaleDen)
  IN  Extent(Resize(Crop(padded, TW, TH), TW2, TH2), w, h)

\* faxSim_effect_rotate.js: the size of the image written to outPath
RotateSize(w, h, angle) == Extent(Distort(Size(w, h)), w, h)

\* a page of w x h given to the warp, with the bounding box %@ reports for
\* the warped content (which lies inside the padded canvas), or a page given
\* to the rotation; warpOffsetPx values are in half pixels: none, half a
\* pixel either way, and beyond the clamp either way; rotation angles are
\* in degrees
InitGeometry ==
  /\ pc = "geometry"
  /\ NoPipeline
  /\ \E w \in 1 .. MaxDim, h \in 1 .. MaxDim :
       \/ \E o \in {-2 * MaxDim, -1, 0, 1, 2 * MaxDim}, s \in 0 .. ScaleDen, tw \in 1 .. (MaxDim + 1), th \in 1 .. (MaxDim + 1) :
            call = [fn |-> "warp", w |-> w, h |-> h, off |-> o, scale |-> s, angle |-> 0,
                    tw |-> tw, th |-> th, used |-> 0, out |-> Size(0, 0)]
       \/ \E a \in {-2, 0, 2} :
            call = [fn |-> "rotate", w |-> w, h |-> h, off |-> 0, scale |-> 0, angle |-> a,
                    tw |-> 0, th |-> 0, used |-> 0, out |-> Size(0, 0)]

\* applyWarpEffect on a page of call.w x call.h
WarpGeometry ==
  /\ pc = "geometry"
  /\ call.fn = "warp"
  /\ pc' = "sized"
  /\ call' = [call EXCEPT !.used = WarpOff2(call.w, call.h, call.off),
                           !.out = WarpSize(call.w, call.h, call.off, call.scale, call.tw, call.th)]
  /\ UNCHANGED pipelineVars

\* applyRotateEffect on a page of call.w x call.h
RotateGeometry ==
  /\ pc = "geometry"
  /\ call.fn = "rotate"
  /\ pc' = "sized"
  /\ call' = [call EXCEPT !.out = RotateSize(call.w, call.h, call.angle)]
  /\ UNCHANGED pipelineVars

NextGeometry == WarpGeometry \/ RotateGeometry

SpecGeometry == InitGeometry /\ [][NextGeometry]_vars

(* --------------- draw scripts of dropout and white noise --------------- *)
\* the values successive Math.random() calls return: call number i (from 0)
\* returns ((seed + i * step) % Den) / Den
Streams == [seed : Draws, step : Draws]
Rand(stream, i) == (stream.seed + i * stream.step) % Den

\* createMVG (faxSim_effect_dropout.js): null when count < 1, else one
\* `rectangle x,y x+b-1,y+b-1` line per block, <<x0, y0, x1, y1>>
createMVG(w, h, dropoutAmount, dropoutSize, stream) ==
  LET blockSize == BlockSize(dropoutSize)
      count     == DropoutCount(w, h, dropoutAmount, dropoutSize)
      x(i)      == (Rand(stream, 2 * i) * (w - blockSize)) \div Den
      y(i)      == (Rand(stream, 2 * i + 1) * (h - blockSize)) \div Den
  IN  IF count < 1 THEN [null |-> TRUE, lines |-> << >>]
      ELSE [null |-> FALSE,
            lines |-> [i \in 1 .. count |->
                         << x(i - 1), y(i - 1), x(i - 1) + blockSize - 1, y(i - 1) + blockSize - 1 >>]]

\* speckle positions counted from 1 instead of 0
createSpeckleMVG_OneBased(w, h, density, stream) ==
  LET count == SpeckleCount(w, h, density)
      x(i)  == (Rand(stream, 2 * i) * w) \div Den + 1
      y(i)  == (Rand(stream, 2 * i + 1) * h) \div Den + 1
  IN  IF count < 1 THEN [null |-> TRUE, lines |-> << >>]
      ELSE [null |-> FALSE, lines |-> [i \in 1 .. count |-> << x(i - 1), y(i - 1) >>]]

\* createSpeckleMVG (faxSim_effect_noiseW.js): null when count < 1, else one
\* `point x,y` line per speckle, <<x, y>>
createSpeckleMVG(w, h, density, stream) ==
  LET count == SpeckleCount(w, h, density)
      x(i)  == (Rand(stream, 2 * i) * w) \div Den
      y(i)  == (Rand(stream, 2 * i + 1) * h) \div Den
  IN  IF count < 1 THEN [null |-> TRUE, lines |-> << >>]
      ELSE [null |-> FALSE, lines |-> [i \in 1 .. count |-> << x(i - 1), y(i - 1) >>]]

NoMvg == [null |-> TRUE, lines |-> << >>]

\* a dropout or white-noise call on an image of w x h, square or taller than
\* wide; amount is the coverage or the density over FracDen; no call of the
\* effect fails; the gate g of the effect is never or always, with the first
\* or the last draw; dropoutSize values b are below 1, whole and fractional
\* sides, and a side larger than any page width
InitMvg ==
  /\ pc = "mvg"
  /\ cur = TmpPath(1, "base", 0)
  /\ files = {cur}
  /\ \E w \in 1 .. MaxDim, h \in 1 .. (MaxDim + 1), a \in 0 .. FracDen, s \in Streams, g \in ({<<p, r>> : p \in {0, Den}, r \in {0, Den - 1}}) :
       \/ \E b \in (0 .. (2 * SizeDen + 1) \cup {SizeDen * (MaxDim + 1)}) :
            call = [eff |-> "dropout", w |-> w, h |-> h, amount |-> a, size |-> b, stream |-> s,
                    batchPerc |-> g[1], r |-> g[2], in |-> cur,
                    ran |-> FALSE, mvg |-> NoMvg, wrote |-> {}]
       \/ call = [eff |-> "noisew", w |-> w, h |-> h, amount |-> a, size |-> 0, stream |-> s,
                   batchPerc |-> g[1], r |-> g[2], in |-> cur,
                   ran |-> FALSE, mvg |-> NoMvg, wrote |-> {}]
  /\ cfg = NoCfg
  /\ srcFiles = [i \in 1 .. NumFiles |-> "pdf"]
  /\ fileIdx = 1
  /\ outputs = NoOutputs
  /\ isFirstPdf = TRUE
  /\ currentDebug = FALSE
  /\ trace = << >>
  /\ snaps = {}
  /\ logs = {}
  /\ sw = SwIdle
  /\ threw = FALSE

\* the effect returned res; mvg is the script it drew, if it got that far
MvgReturn(res, ran, mvg) ==
  /\ pc' = "returned"
  /\ cur' = res.cur
  /\ files' = res.files
  /\ call' = [call EXCEPT !.ran = ran, !.mvg = IF ran THEN mvg ELSE NoMvg, !.wrote = res.wrote]
  /\ UNCHANGED <<cfg, srcFiles, fileIdx, outputs, isFirstPdf, currentDebug,
                 trace, snaps, logs, sw, threw>>

\* applyDropoutEffect(cur, name, tmpDir, IM, dropoutAmount, dropoutSize, dropoutBatchPerc)
DropoutCall ==
  /\ pc = "mvg"
  /\ call.eff = "dropout"
  /\ MvgReturn(DropoutOnPage(cur, 1, files, call.w, call.h, call.amount, call.size,
                             call.batchPerc, call.r, 0),
               ~(call.batchPerc < Den /\ call.r > call.batchPerc),
               createMVG(call.w, call.h, call.amount, call.size, call.stream))

\* applyNoiseWEffect(cur, name, tmpDir, IM, batchPerc, density)
NoiseWCall ==
  /\ pc = "mvg"
  /\ call.eff = "noisew"
  /\ MvgReturn(NoiseWOnPage(cur, 1, files, call.w, call.h, call.batchPerc, call.r,
                            call.amount, 0),
               ~(call.batchPerc < Den /\ call.r > call.batchPerc),
               createSpeckleMVG(call.w, call.h, call.amount, call.stream))

NextMvg == DropoutCall \/ NoiseWCall

SpecMvg == InitMvg /\ [][NextMvg]_vars

(* ------------------- masks of the white-stripes effect ----------------- *)
\* the pixels of a w x h image, <<x, y>>
Pixels(w, h) == (0 .. (w - 1)) \X (0 .. (h - 1))

\* 2) build stripe mask: the bands of stripes i .. amount-1 as <<pos, thickness>>;
\* offset is the running offset, k the number of Math.random() calls made so
\* far; a band thicker than the page makes Buffer.fill throw (out of range)
RECURSIVE StripeBands(_, _, _, _)
StripeBands(q, i, offset, k) ==
  IF i >= q.amount THEN [bands |-> {}, k |-> k, err |-> FALSE]
  ELSE LET side      == IF q.dir = "horizontal" THEN q.h ELSE q.w
           thickness == q.thickMin + (Rand(q.stream, k) * (q.thickMax - q.thickMin + 1)) \div Den
           last      == i >= q.amount - 1
           spacing   == IF last THEN 0
                        ELSE q.spacingMin
                             + (Rand(q.stream, k + 1) * (q.spacingMax - q.spacingMin + 1)) \div Den
           kj        == IF last THEN k + 1 ELSE k + 2
           jitter    == ((2 * Rand(q.stream, kj) - Den) * spacing) \div Den
           maxPos    == side - thickness
           pos       == Max(0, Min(maxPos, offset + spacing + jitter))
           rest      == StripeBands(q, i + 1, offset + spacing + thickness, kj + 1)
       IN  IF thickness > side THEN [bands |-> {}, k |-> kj + 1, err |-> TRUE]
           ELSE [bands |-> {<<pos, thickness>>} \cup rest.bands, k |-> rest.k, err |-> rest.err]

\* stripeMask: the pixels set to 255
StripeMask(q, bands) ==
  {p \in Pixels(q.w, q.h) :
     \E b \in bands :
        LET c == IF q.dir = "horizontal" THEN p[2] ELSE p[1]
        IN  b[1] <= c /\ c < b[1] + b[2]}

\* 3) noiseRaw: the pixels set to 255 (keep); pixel i draws call number k + i
NoiseRaw(q, k) ==
  {p \in Pixels(q.w, q.h) : ~(Rand(q.stream, k + p[2] * q.w + p[1]) < q.distort)}

\* 3a) .blur(noiseSize > 1 ? noiseSize/2 : 1): a normalised kernel of radius
\* sigma with weights falling off linearly, the edge pixels repeated
BlurRadius(noiseSize) == IF noiseSize > 1 THEN Max(1, noiseSize \div 2) ELSE 1

Weight(rad, d) == rad + 1 - (IF d < 0 THEN -d ELSE d)

\* f[1] + ... + f[n]
RECURSIVE SumTo(_, _)
SumTo(f, n) == IF n = 0 THEN 0 ELSE f[n] + SumTo(f, n - 1)

\* the blurred byte at pixel p: the kernel taps are numbered row by row
Blurred(q, raw, p) ==
  LET rad   == BlurRadius(q.noiseSize)
      side  == 2 * rad + 1
      dx(i) == ((i - 1) % side) - rad
      dy(i) == ((i - 1) \div side) - rad
      at(i) == << Max(0, Min(q.w - 1, p[1] + dx(i))), Max(0, Min(q.h - 1, p[2] + dy(i))) >>
      wt    == [i \in 1 .. side * side |-> Weight(rad, dx(i)) * Weight(rad, dy(i))]
      val   == [i \in 1 .. side * side |-> IF at(i) \in raw THEN 255 * wt[i] ELSE 0]
  IN  Round(SumTo(val, side * side), SumTo(wt, side * side))

\* 3b) noiseMask[i] = blurred[i] > thresh ? 255 : 0: the pixels set to 255
NoiseMask(q, raw) == {p \in Pixels(q.w, q.h) : Blurred(q, raw, p) > 128}

\* a final mask that is on where either mask is on
FinalMask_Or(q, stripeMask, noiseMask) ==
  [p \in Pixels(q.w, q.h) |-> IF p \in stripeMask \/ p \in noiseMask THEN 255 ELSE 0]

\* 4) AND stripeMask & noiseMask -> finalMask
FinalMask(q, stripeMask, noiseMask) ==
  [p \in Pixels(q.w, q.h) |-> IF p \in stripeMask /\ p \in noiseMask THEN 255 ELSE 0]

\* 6) the alpha channel of the white RGBA overlay
OverlayAlpha(finalMask) == [p \in DOMAIN finalMask |-> finalMask[p]]

MaxStripes == 2

NoMasks == [stripeMask |-> {}, noiseMask |-> {}, alpha |-> << >>, err |-> FALSE]

\* a white-stripes call on an image of w x h; the stripe ranges t are
\* <<thickMin, thickMax, spacingMin, spacingMax>>
InitMasks ==
  /\ pc = "masks"
  /\ cur = TmpPath(1, "base", 0)
  /\ files = {cur}
  /\ \E w \in 1 .. MaxDim, h \in 1 .. MaxDim, d \in {"horizontal", "vertical"},
        n \in 0 .. MaxStripes, t \in {<<1, 1, 0, 0>>, <<1, 2, 0, 1>>}, ns \in {1, 4}, ds \in Percs, s \in Streams :
       call = [w |-> w, h |-> h, dir |-> d, amount |-> n, thickMin |-> t[1], thickMax |-> t[2],
               spacingMin |-> t[3], spacingMax |-> t[4], noiseSize |-> ns, distort |-> ds,
               stream |-> s, in |-> cur, out |-> NoMasks]
  /\ cfg = NoCfg
  /\ srcFiles = [i \in 1 .. NumFiles |-> "pdf"]
  /\ fileIdx = 1
  /\ outputs = NoOutputs
  /\ isFirstPdf = TRUE
  /\ currentDebug = FALSE
  /\ trace = << >>
  /\ snaps = {}
  /\ logs = {}
  /\ sw = SwIdle
  /\ threw = FALSE

\* applyStripesWEffect: the masks it builds and the overlay it composites
StripesWMasks ==
  /\ pc = "masks"
  /\ LET first      == (Rand(call.stream, 0) * (IF call.dir = "horizontal" THEN call.h ELSE call.w)) \div Den
         sb         == StripeBands(call, 0, first, 1)
         stripeMask == StripeMask(call, sb.bands)
         noiseMask  == NoiseMask(call, NoiseRaw(call, sb.k))
         alpha      == OverlayAlpha(FinalMask(call, stripeMask, noiseMask))
         res        == applyStripesWEffect(cur, 1, files, Den, 0, call.amount, 0)
     IN  IF sb.err
         THEN /\ pc' = "threw"
              /\ threw' = TRUE
              /\ call' = [call EXCEPT !.out = [NoMasks EXCEPT !.err = TRUE]]
              /\ UNCHANGED <<cur, files>>
         ELSE /\ pc' = "masked"
              /\ cur' = res.cur
              /\ files' = res.files
              /\ call' = [call EXCEPT !.out = [stripeMask |-> stripeMask, noiseMask |-> noiseMask,
                                               alpha |-> alpha, err |-> FALSE]]
              /\ UNCHANGED threw
  /\ UNCHANGED <<cfg, srcFiles, fileIdx, outputs, isFirstPdf, currentDebug,
                 trace, snaps, logs, sw>>

SpecMasks == InitMasks /\ [][StripesWMasks]_vars

(* --------------------------- generateTestdata.js ----------------------- *)
\* largest value given to --amount, and largest number of <ClaimRecord>
\* elements in the random-data XML
MaxAmount == 3
MaxRecords == 2

\* join(outputPdfDir | outputXmlDir, `testdata_${recordId}_form8+11_p1.<kind>`)
OutPath(kind, recordId) == <<recordId, kind, 0>>

\* the files of one kind written so far
Written(kind) == {f \in files : f[2] = kind}

\* the command line: the two flags, the value after -a / --amount (Undef when
\* the option is absent), and the number of records in the data XML
InitTestdata ==
  /\ pc = "args"
  /\ \E p \in BOOLEAN, x \in BOOLEAN, a \in {Undef} \cup (0 .. MaxAmount), n \in 0 .. MaxRecords :
       call = [pdfOnly |-> p, xmlOnly |-> x, amountArg |-> a, records |-> n,
               onlyPdf |-> FALSE, onlyXml |-> FALSE, amount |-> 1,
               run |-> 1, pdfCount |-> 0, selected |-> << >>]
  /\ cur = NoPath
  /\ files = {}
  /\ cfg = NoCfg
  /\ srcFiles = [i \in 1 .. NumFiles |-> "pdf"]
  /\ fileIdx = 1
  /\ outputs = NoOutputs
  /\ isFirstPdf = TRUE
  /\ currentDebug = FALSE
  /\ trace = << >>
  /\ snaps = {}
  /\ logs = {}
  /\ sw = SwIdle
  /\ threw = FALSE

\* what the steps of generateTestdata leave alone
testdataFrame == <<cfg, srcFiles, fileIdx, cur, outputs, isFirstPdf, currentDebug,
                   trace, snaps, sw>>

\* CLI arguments parsing: onlyPdf is set from --xmlOnly and onlyXml from
\* --pdfOnly; both flags, or an amount outside 1..999, exit with status 1
ParseArgs ==
  /\ pc = "args"
  /\ LET onlyPdf == call.xmlOnly
         onlyXml == call.pdfOnly
     IN  IF onlyPdf /\ onlyXml
         THEN /\ pc' = "exit1"
              /\ logs' = logs \cup {<<0, "Cannot specify both --pdfOnly and --xmlOnly">>}
              /\ UNCHANGED call
         ELSE IF call.amountArg # Undef /\ call.amountArg < 1
         THEN /\ pc' = "exit1"
              /\ logs' = logs \cup {<<0, "Amount must be an integer between 1 and 999">>}
              /\ UNCHANGED call
         ELSE /\ pc' = "run"
              /\ call' = [call EXCEPT !.onlyPdf = onlyPdf, !.onlyXml = onlyXml,
                                      !.amount = IF call.amountArg = Undef THEN 1 ELSE call.amountArg]
              /\ UNCHANGED logs
  /\ UNCHANGED <<files, threw>>
  /\ UNCHANGED testdataFrame

\* for (let run = 1; run <= amount; run++): 2) select this run's record
SelectRecord ==
  /\ pc = "run"
  /\ call.run <= call.amount
  /\ IF call.records = 0
       THEN /\ pc' = "exit1"
            /\ logs' = logs \cup {<<call.run, "No records found in the data XML!">>}
            /\ UNCHANGED call
       ELSE LET totalRecords       == call.records
                currentRecordIndex == call.pdfCount % totalRecords
            IN  /\ pc' = "write"
                /\ call' = [call EXCEPT !.selected = Append(@, currentRecordIndex),
                                        !.pdfCount = @ + 1]
                /\ UNCHANGED logs
  /\ UNCHANGED <<files, threw>>
  /\ UNCHANGED testdataFrame

\* 3)-8) fill the form, then write the outputs of this run; failAt = 1: the
\* PDF write throws, 2: the XML write throws (the promise of main rejects)
WriteOutputs ==
  /\ pc = "write"
  /\ \E failAt \in 0 .. 2 :
       LET recordId == call.run
           ops == (IF ~call.onlyXml THEN << WriteFile(OutPath("pdf", recordId)) >> ELSE << >>)
                  \o (IF ~call.onlyPdf THEN << WriteFile(OutPath("xml", recordId)) >> ELSE << >>)
           at  == IF failAt = 2 /\ call.onlyXml THEN 1
                  ELSE IF failAt = 1 /\ call.onlyXml THEN 0 ELSE failAt
           res == RunOps(ops, files, at)
       IN  /\ files' = res.files
           /\ threw' = res.err
           /\ pc' = IF res.err THEN "rejected" ELSE "run"
           /\ call' = IF res.err THEN call ELSE [call EXCEPT !.run = @ + 1]
  /\ UNCHANGED logs
  /\ UNCHANGED testdataFrame

\* the loop is over
TestdataDone ==
  /\ pc = "run"
  /\ call.run > call.amount
  /\ pc' = "done"
  /\ UNCHANGED <<call, files, logs, threw>>
  /\ UNCHANGED testdataFrame

NextTestdata == ParseArgs \/ SelectRecord \/ WriteOutputs \/ TestdataDone

SpecTestdata == InitTestdata /\ [][NextTestdata]_vars

(* ---------------- sortByDependencies (randomDataHelpers.js) ------------ *)
\* an xmlPath config has the keys 1 .. n in insertion order; key names are
\* xmlPath names (none of them a property of Object.prototype); the name
\* n + 1 is a dependency that is not a key of the config
MaxKeys == 3
\* most entries of the `dependencies` arrays of a config, all keys together
MaxDeps == 3

\* the `dependencies` arrays of the keys 1 .. k, each an array of names out
\* of 1 .. n + 1, with at most m entries in all
RECURSIVE Configs(_, _, _)
Configs(n, k, m) ==
  IF k = 0 THEN {<< >>}
  ELSE UNION {{Append(c, l) : c \in Configs(n, k - 1, m - Len(l))} :
                l \in UNION {[1 .. i -> 1 .. (n + 1)] : i \in 0 .. m}}

\* Object.keys(cfg)
Keys(c) == 1 .. c.n

\* result.unshift(key) in place of result.push(key)
Done_Unshift(st, key) ==
  [st EXCEPT !.state[key] = "visited", !.result = << key >> \o @]

\* state[key] = 'visited'; result.push(key)
Done(st, key) ==
  [st EXCEPT !.state[key] = "visited", !.result = Append(@, key)]

\* visit(key, trail): st holds state, result, the console.warn messages as
\* <<dep, key>> and, once the Error is thrown, err and the trail it reports
RECURSIVE visit(_, _, _, _)
RECURSIVE visitDeps(_, _, _, _, _)
visit(c, key, trail, st) ==
  IF st.err THEN st
  ELSE IF st.state[key] = "visiting"
       THEN [st EXCEPT !.err = TRUE, !.cycle = Append(trail, key)]
  ELSE IF st.state[key] = "none"
       THEN LET s1 == visitDeps(c, key, 1, trail, [st EXCEPT !.state[key] = "visiting"])
            IN  IF s1.err THEN s1 ELSE Done(s1, key)
  ELSE st

\* for (const dep of cfg[key].dependencies || []), from the i-th dep on
visitDeps(c, key, i, trail, st) ==
  IF st.err \/ i > Len(c.deps[key]) THEN st
  ELSE LET dep == c.deps[key][i]
           s1  == IF dep \in Keys(c)
                    THEN visit(c, dep, Append(trail, key), st)
                    ELSE [st EXCEPT !.warned = @ \cup {<<dep, key>>}]
       IN  visitDeps(c, key, i + 1, trail, s1)

\* Object.keys(cfg).forEach(k => visit(k)), from key k on
RECURSIVE forEachKey(_, _, _)
forEachKey(c, k, st) ==
  IF st.err \/ k > c.n THEN st ELSE forEachKey(c, k + 1, visit(c, k, << >>, st))

sortByDependencies(c) ==
  forEachKey(c, 1, [state |-> [k \in Keys(c) |-> "none"], result |-> << >>,
                    warned |-> {}, err |-> FALSE, cycle |-> << >>])

\* a config of n keys, each with its dependencies array
InitSort ==
  /\ pc = "sort"
  /\ \E n \in 0 .. MaxKeys :
       \E deps \in Configs(n, n, MaxDeps) :
          call = [n |-> n, deps |-> deps, out |-> [state |-> << >>, result |-> << >>, warned |-> {}, err |-> FALSE, cycle |-> << >>]]
  /\ NoPipeline

\* const sortedPaths = sortByDependencies(xmlPathConfig)
SortCall ==
  /\ pc = "sort"
  /\ LET out == sortByDependencies(call)
     IN  /\ pc' = IF out.err THEN "threw" ELSE "sorted"
         /\ call' = [call EXCEPT !.out = out]
  /\ UNCHANGED pipelineVars

SpecSort == InitSort /\ [][SortCall]_vars

(* ---------------- tiles of the tile-shift effect (part_002) ------------ *)
\* most tiles of one call
MaxTiles == 2

\* randInt(min, max) with Math.random() = r / Den
randInt(min, max, r) == (r * (max - min + 1)) \div Den + min

\* one pass of the tile loop, tile i (from 0): five Math.random() calls, the
\* crop `ts x ts + x + y` and the paste `-geometry +px+py`
Tile(q, i) ==
  LET extra == randInt(0, q.tilesVariation, Rand(q.stream, 5 * i))
      ts    == q.tilesSize + extra
      x     == randInt(0, q.w - ts, Rand(q.stream, 5 * i + 1))
      y     == randInt(0, q.h - ts, Rand(q.stream, 5 * i + 2))
      dx    == q.tilesOffsetX + randInt(0, q.offsetVariation, Rand(q.stream, 5 * i + 3))
      dy    == q.tilesOffsetY + randInt(0, q.offsetVariation, Rand(q.stream, 5 * i + 4))
      px    == IF x + dx + ts > q.w THEN q.w - ts ELSE x + dx
      py    == IF y + dy + ts > q.h THEN q.h - ts ELSE y + dy
  IN  [ts |-> ts, x |-> x, y |-> y, px |-> px, py |-> py]

\* a tile-shift call on an image of w x h; tilesSize values ts are one
\* pixel, two pixels and larger than any page
InitTiles ==
  /\ pc = "tiles"
  /\ cur = TmpPath(1, "base", 0)
  /\ files = {cur}
  /\ \E w \in 1 .. MaxDim, h \in 1 .. MaxDim, n \in 0 .. MaxTiles, ts \in {1, 2, MaxDim + 1}, tv \in 0 .. 1,
        ox \in {-1, 0, 1}, oy \in {-1, 0, 1}, ov \in 0 .. 1, s \in Streams :
       call = [w |-> w, h |-> h, amountTiles |-> n, tilesSize |-> ts, tilesVariation |-> tv,
               tilesOffsetX |-> ox, tilesOffsetY |-> oy, offsetVariation |-> ov,
               stream |-> s, in |-> cur, tiles |-> << >>]
  /\ cfg = NoCfg
  /\ srcFiles = [i \in 1 .. NumFiles |-> "pdf"]
  /\ fileIdx = 1
  /\ outputs = NoOutputs
  /\ isFirstPdf = TRUE
  /\ currentDebug = FALSE
  /\ trace = << >>
  /\ snaps = {}
  /\ logs = {}
  /\ sw = SwIdle
  /\ threw = FALSE

\* applyTileshiftEffect(cur, name, tmpDir, IM, 1, amountTiles, tilesSize, ...)
TileshiftCall ==
  /\ pc = "tiles"
  /\ LET res == applyTileshiftEffect(cur, 1, files, Den, 0, call.amountTiles, 0)
     IN  /\ pc' = "tiled"
         /\ cur' = res.cur
         /\ files' = res.files
         /\ call' = [call EXCEPT !.tiles = [i \in 1 .. (IF call.amountTiles > 0 THEN call.amountTiles ELSE 0) |->
                                           Tile(call, i - 1)]]
  /\ UNCHANGED <<cfg, srcFiles, fileIdx, outputs, isFirstPdf, currentDebug,
                 trace, snaps, logs, sw, threw>>

SpecTiles == InitTiles /\ [][TileshiftCall]_vars

(* ------------- clusters of the stripes effect (faxSim_effect_stripes.js) *)
\* most clusters of one call
MaxClusters == 2
\* a smear length is a numerator over LenDen
LenDen == 4

\* randInt(min, max) of the stripes module: an integer in [min, max)
stripesRandInt(min, max, r) == (r * (max - min)) \div Den + min

\* Math.floor(Math.sqrt(n))
Isqrt(n) == CHOOSE d \in 0 .. n : d * d <= n /\ (d + 1) * (d + 1) > n

\* clamp(val, min, max)
clamp(val, min, max) == IF val < min THEN min ELSE IF val > max THEN max ELSE val

\* a smear that grows with the distance from the page centre
BlurLen_Direct(w, h, cx, cy, smearLMin, smearLMax) ==
  LET d2     == (2 * cx - w) * (2 * cx - w) + (2 * cy - h) * (2 * cy - h)
      m2     == w * w + h * h
      ratio  == Isqrt((d2 * LenDen * LenDen) \div m2)
      rawLen == smearLMin * LenDen + (smearLMax - smearLMin) * ratio
  IN  clamp(rawLen, smearLMin * LenDen, smearLMax * LenDen)

\* dist = hypot(cx - w/2, cy - h/2), maxDist = hypot(w/2, h/2),
\* rawLen = smearLMin + (smearLMax - smearLMin) * (1 - dist / maxDist),
\* blurLen = clamp(rawLen, smearLMin, smearLMax); the result is over LenDen,
\* with dist / maxDist taken to the 1/LenDen below it
BlurLen(w, h, cx, cy, smearLMin, smearLMax) ==
  LET d2     == (2 * cx - w) * (2 * cx - w) + (2 * cy - h) * (2 * cy - h)
      m2     == w * w + h * h
      ratio  == Isqrt((d2 * LenDen * LenDen) \div m2)
      rawLen == smearLMin * LenDen + (smearLMax - smearLMin) * (LenDen - ratio)
  IN  clamp(rawLen, smearLMin * LenDen, smearLMax * LenDen)

\* cluster a (from 0): its centre, four times the square of the centre's
\* distance from the page centre, and its smear length; the two Math.random()
\* calls for the centre are calls 2a and 2a + 1 of the stream
Cluster(q, a) ==
  LET cx == stripesRandInt(q.areaWidthPx \div 2, q.w - (q.areaWidthPx + 1) \div 2,
                           Rand(q.stream, 2 * a))
      cy == stripesRandInt(q.areaHeightPx \div 2, q.h - (q.areaHeightPx + 1) \div 2,
                           Rand(q.stream, 2 * a + 1))
  IN  [cx |-> cx, cy |-> cy,
       d2 |-> (2 * cx - q.w) * (2 * cx - q.w) + (2 * cy - q.h) * (2 * cy - q.h),
       blurLen |-> IF q.applySmear THEN BlurLen(q.w, q.h, cx, cy, q.smearLMin, q.smearLMax) ELSE 0]

\* a stripes call on an image of w x h; the cluster boxes ar are
\* <<areaWidthPx, areaHeightPx>>: too narrow to hold a speckle, inside the
\* page, wider than the page; sr is <<smearLMin, smearLMax>>
InitStripes ==
  /\ pc = "clusters"
  /\ cur = TmpPath(1, "base", 0)
  /\ files = {cur}
  /\ \E w \in 1 .. (MaxDim + 1), h \in 1 .. (MaxDim + 1), n \in 0 .. MaxClusters,
        ar \in {<<1, 2>>, <<2, 2>>, <<2 * MaxDim, 2>>}, sm \in BOOLEAN, sr \in {<<1, 1>>, <<1, 3>>, <<3, 1>>}, s \in Streams :
       call = [w |-> w, h |-> h, areasAmount |-> n, areaWidthPx |-> ar[1], areaHeightPx |-> ar[2],
               applySmear |-> sm, smearLMin |-> sr[1], smearLMax |-> sr[2], stream |-> s,
               in |-> cur, out |-> [clusters |-> << >>, unlinked |-> << >>, wrote |-> {}]]
  /\ cfg = NoCfg
  /\ srcFiles = [i \in 1 .. NumFiles |-> "pdf"]
  /\ fileIdx = 1
  /\ outputs = NoOutputs
  /\ isFirstPdf = TRUE
  /\ currentDebug = FALSE
  /\ trace = << >>
  /\ snaps = {}
  /\ logs = {}
  /\ sw = SwIdle
  /\ threw = FALSE

\* applyStripesEffect(cur, name, tmpDir, IM, 1, areasAmount, ..., density 1, ...)
StripesCall ==
  /\ pc = "clusters"
  /\ LET n   == Clusters(call.areasAmount, call.areaWidthPx, call.areaHeightPx, FracDen)
         ops == StripesOps(cur, 1, call.areasAmount, call.areaWidthPx, call.areaHeightPx,
                           FracDen, call.applySmear)
         res == applyStripesEffect(cur, 1, files, Den, 0, call.areasAmount, call.areaWidthPx,
                                   call.areaHeightPx, FracDen, call.applySmear, 0)
         u   == SelectSeq(ops, LAMBDA o : o.k = "unlink")
     IN  /\ pc' = IF res.err THEN "threw" ELSE "returned"
         /\ cur' = res.cur
         /\ files' = res.files
         /\ threw' = res.err
         /\ call' = [call EXCEPT !.out = [clusters |-> [a \in 1 .. n |-> Cluster(call, a - 1)],
                                          unlinked |-> [i \in 1 .. Len(u) |-> CHOOSE p \in u[i].ins : TRUE],
                                          wrote |-> res.wrote]]
  /\ UNCHANGED <<cfg, srcFiles, fileIdx, outputs, isFirstPdf, currentDebug,
                 trace, snaps, logs, sw>>

SpecStripes == InitStripes /\ [][StripesCall]_vars

(* --------------- applyBrightness (faxSim_effect_brightness.js) --------- *)
\* the engine and fs calls of applyBrightness for each brightnessOption; the
\* argument ` ${high}%` that follows `-level ${low}%` as an element of its
\* own is taken by the engine for the name of an image to read
BrightnessOps(c, nm, brightnessMax, brightnessOption) ==
  LET tmp == TmpPath(nm, "bright", 0)
  IN  IF brightnessOption = "modulate" THEN << Exec({c}, tmp), Unlink(c) >>
      ELSE IF brightnessOption = "level" THEN << Exec({c, <<0, "level_high", brightnessMax>>}, tmp), Unlink(c) >>
      ELSE << Exec({c}, NoPath), Exec({c}, tmp), Unlink(c) >>

\* the transform the option selects
BrightnessTransform(brightnessOption) ==
  IF brightnessOption \in {"modulate", "level"} THEN brightnessOption ELSE "overlay"

\* Math.floor(Math.random() * (brightnessMax - brightnessMin + 1)) + Number(brightnessMin)
Opacity(brightnessMin, brightnessMax, r) ==
  (r * (brightnessMax - brightnessMin + 1)) \div Den + brightnessMin

applyBrightness(c, nm, fs, brightnessMin, brightnessMax, brightnessOption, failAt) ==
  Returned(TmpPath(nm, "bright", 0),
           RunOps(BrightnessOps(c, nm, brightnessMax, brightnessOption), fs, failAt), c, 1)

NoBrightness == [transform |-> "none", opacity |-> -1]

\* a brightness call on a rendered page or on the output of the warp;
\* brightnessOption values o are the three modes and a misspelt one, br is
\* <<brightnessMin, brightnessMax>> in percent
InitBrightness ==
  /\ pc = "brightness"
  /\ \E c \in {TmpPath(1, "base", 0), TmpPath(1, "warp", 0)} : cur = c /\ files = {c}
  /\ \E o \in {"modulate", "level", "overlay", "overlays"}, br \in {<<0, 0>>, <<1, 2>>, <<0, 3>>, <<20, 20>>}, r \in Draws, failAt \in {0, 1} :
       call = [brightnessOption |-> o, brightnessMin |-> br[1], brightnessMax |-> br[2],
               r |-> r, failAt |-> failAt, in |-> cur, out |-> NoBrightness]
  /\ cfg = NoCfg
  /\ srcFiles = [i \in 1 .. NumFiles |-> "pdf"]
  /\ fileIdx = 1
  /\ outputs = NoOutputs
  /\ isFirstPdf = TRUE
  /\ currentDebug = FALSE
  /\ trace = << >>
  /\ snaps = {}
  /\ logs = {}
  /\ sw = SwIdle
  /\ threw = FALSE

\* applyBrightness({cur, name, tmpDir, IM, brightnessMin, brightnessMax, brightnessOption})
BrightnessCall ==
  /\ pc = "brightness"
  /\ LET res == applyBrightness(cur, 1, files, call.brightnessMin, call.brightnessMax,
                                call.brightnessOption, call.failAt)
         t   == BrightnessTransform(call.brightnessOption)
     IN  /\ pc' = IF res.err THEN "threw" ELSE "returned"
         /\ cur' = res.cur
         /\ files' = res.files
         /\ threw' = res.err
         /\ call' = [call EXCEPT !.out =
                       IF res.err THEN NoBrightness
                       ELSE [transform |-> t,
                             opacity |-> IF t = "overlay"
                                           THEN Opacity(call.brightnessMin, call.brightnessMax, call.r)
                                           ELSE -1]]
  /\ UNCHANGED <<cfg, srcFiles, fileIdx, outputs, isFirstPdf, currentDebug,
                 trace, snaps, logs, sw>>

SpecBrightness == InitBrightness /\ [][BrightnessCall]_vars

(* ------------- records of the random-data generator (main) ------------- *)
\* instants are counted in parts of a day, DayDen to the day, from the UTC
\* midnight before the run; a date string YYYY-MM-DD is its day number
DayDen == 2

\* most entries of the `dependencies` arrays of a record config, all keys
\* together
MaxDeclared == 1

\* new Date(t).toISOString().slice(0, 10): the UTC day the instant falls in
ToIsoDate(t) == t \div DayDen

\* new Date('YYYY-MM-DD'): the UTC midnight of the day
ParseDate(d) == d * DayDen

\* Math.floor(Math.random() * (offsetMaxDays - offsetMinDays + 1)) + offsetMinDays
OffsetDays(offsetMinDays, offsetMaxDays, r) ==
  (r * (offsetMaxDays - offsetMinDays + 1)) \div Den + offsetMinDays

\* cfg.relativeTo === 'now' ? new Date() : new Date(context[cfg.relativeTo] || Date.now());
\* relativeTo 0 stands for 'now'; a field not yet in the context is undefined
RelativeBase(q, xp, context) ==
  IF q.rel[xp] = 0 THEN q.now
  ELSE IF q.rel[xp] \in DOMAIN context THEN ParseDate(context[q.rel[xp]])
  ELSE q.now

\* generateValue(xp, cfg, context), case 'dateRelative': the context with
\* context[xmlPath] = val
generateValue(q, xp, context, r) ==
  LET val == ToIsoDate(RelativeBase(q, xp, context)
                         + OffsetDays(q.offsetMinDays, q.offsetMaxDays, r) * DayDen)
  IN  [k \in DOMAIN context \cup {xp} |-> IF k = xp THEN val ELSE context[k]]

\* for (const xp of sortedPaths) generateValue(...), from position j on, for
\* record i; the draws of a run are numbered through the records
RECURSIVE populate(_, _, _, _)
populate(q, i, j, context) ==
  IF j > Len(q.sortedPaths) THEN context
  ELSE populate(q, i, j + 1,
                generateValue(q, q.sortedPaths[j], context,
                              Rand(q.stream, (i - 1) * Len(q.sortedPaths) + j - 1)))

\* a config of n dateRelative fields (offsetMinDays and offsetMaxDays are o;
\* relativeTo is 'now' for all keys, or one key names a key) and a run of
\* MaxRecords records, started at the instant now
InitRecords ==
  /\ pc = "config"
  /\ \E n \in 1 .. MaxKeys, o \in {<<1, 2>>, <<-1, 0>>}, now \in {0, DayDen - 1}, seed \in Draws :
       \E deps \in Configs(n, n, MaxDeclared), rel \in {[k \in 1 .. n |-> IF k = a THEN b ELSE 0] : a \in 1 .. n, b \in 0 .. n} :
          call = [n |-> n, deps |-> deps, rel |-> rel,
                  offsetMinDays |-> o[1], offsetMaxDays |-> o[2],
                  now |-> now, stream |-> [seed |-> seed, step |-> 1],
                  amount |-> MaxRecords, sortedPaths |-> << >>, records |-> << >>]
  /\ NoPipeline

\* const sortedPaths = sortByDependencies(xmlPathConfig); a circular
\* dependency throws out of main
SortPaths ==
  /\ pc = "config"
  /\ LET out == sortByDependencies(call)
     IN  /\ pc' = IF out.err THEN "threw" ELSE "records"
         /\ call' = [call EXCEPT !.sortedPaths = out.result]
  /\ UNCHANGED pipelineVars

\* one round of `for (let i = 1; i <= amount; i++)`: a new context, populated
\* in the order of sortedPaths
GenerateRecord ==
  /\ pc = "records"
  /\ LET i == Len(call.records) + 1
     IN  /\ call' = [call EXCEPT !.records = Append(@, populate(call, i, 1, << >>))]
         /\ pc' = IF i = call.amount THEN "generated" ELSE "records"
  /\ UNCHANGED pipelineVars

NextRecords == SortPaths \/ GenerateRecord

SpecRecords == InitRecords /\ [][NextRecords]_vars

(* ------------------------------ properties ----------------------------- *)
\* the stage boundaries of a document: Render has returned, Cleanup has not run
Boundaries == {"warp", "rotate", "rotatemirror", "stripesw", "alpha", "gray", "blur",
               "stripes", "rasterization", "dither", "noisew", "rastereffect",
               "finalthreshold", "dropout", "tileshift", "compress", "cleanup"}

\* stage was entered for the current document
Ran(stage) == \E i \in 1 .. Len(trace) : trace[i] = stage

\* the documents whose loop iteration has completed
Completed == {d \in 1 .. NumFiles : d < fileIdx /\ srcFiles[d] = "pdf"}

\* C1: at every stage boundary of a document exactly one intermediate file of
\* that document exists in the temp directory, and it is the file cur names
C1_OneLiveFile ==
  pc \in Boundaries => DocFiles(files, name) = {cur}

\* C1 witness: the end of a pipeline in which warp, stripes, dropout and
\* tile-shift each replaced the handle
C1_Witness ==
  /\ pc = "compress"
  /\ Ran("warp") /\ Ran("stripes") /\ Ran("dropout") /\ Ran("tileshift")
  /\ cur = TmpPath(name, "tiles", 0)
  /\ files = {cur}

\* C2: the last intermediate is deleted only after <name>.tif was written,
\* and a completed document leaves no intermediate file behind
C2_CleanAfterCompress ==
  /\ \A d \in Completed : DocFiles(files, d) = {} /\ Len(outputs[d]) = 1
  /\ (pc \in Boundaries /\ Len(outputs[name]) = 0) => cur \in files

\* C2 witness: a document that went through warp, stripes, noise and dropout
\* has completed
C2_Witness ==
  /\ pc = "loop"
  /\ Completed # {}
  /\ Ran("warp") /\ Ran("stripes") /\ Ran("noisew") /\ Ran("dropout") /\ Ran("cleanup")
  /\ files = {}

StageOrder ==
  << "render", "warp", "rotate", "rotatemirror", "stripesw", "alpha", "gray", "blur",
     "stripes", "rasterization", "dither", "noisew", "rastereffect", "finalthreshold",
     "dropout", "tileshift", "compress", "cleanup" >>

StageIdx(stage) == CHOOSE i \in 1 .. Len(StageOrder) : StageOrder[i] = stage

\* C3: the stages of a document run in the fixed order, none twice, and a
\* document that completed was rendered, compressed and cleaned up
C3_StageOrder ==
  /\ \A i, j \in 1 .. Len(trace) : i < j => StageIdx(trace[i]) < StageIdx(trace[j])
  /\ (pc = "loop" /\ Completed # {} /\ trace # << >>) =>
        /\ trace[1] = "render"
        /\ Len(trace) >= 3
        /\ trace[Len(trace) - 1] = "compress"
        /\ trace[Len(trace)] = "cleanup"

\* C3 witness: a completed document for which every one of the 18 stages ran
C3_Witness ==
  /\ pc = "loop"
  /\ Completed # {}
  /\ trace = StageOrder

\* the call left the temp directory as it was and handed the input back
CallWasNoop ==
  /\ cur = call.cur
  /\ call.cur \in files
  /\ files = {call.cur}
  /\ call.wrote = {}

\* C4: a call with batch probability 0 returns the input handle, leaves the
\* input on disk and creates or overwrites no file, whatever the draw is
C4_ProbZeroNoop ==
  (pc = "returned" /\ call.batchPerc = 0) => CallWasNoop

\* the parameters of the call give the effect something to draw
NonTrivial(k) ==
  CASE k.eff = "dropout" ->
         DropoutCount(PageW, PageH, k.par.dropoutAmount * Den, k.par.dropoutSize) >= 1
    [] k.eff = "noisew" -> SpeckleCount(PageW, PageH, k.par.noiseWDensity * Den) >= 1
    [] k.eff = "tileshift" -> k.par.amountTiles >= 1
    [] k.eff = "stripes" ->
         /\ k.par.stripesAreasAmount >= 1
         /\ PixelCount(k.par.stripesAreaWidthPx, k.par.stripesAreaHeightPx,
                       k.par.stripesDensity * Den) >= 1
    [] k.eff = "stripesw" -> k.par.stripesWAmount >= 1
    [] OTHER -> TRUE

\* the names an effect writes its own output to
OwnOutputs(eff) ==
  CASE eff = "warp" -> {"warp", "warp_pad"}
    [] eff = "rotate" -> {"rotated"}
    [] eff = "dropout" -> {"rb"}
    [] eff = "tileshift" -> {"tiles"}
    [] eff = "stripes" -> {"stripes_blob_comp"}
    [] eff = "noisew" -> {"noiseW"}
    [] eff = "rastereffect" -> {"raster"}
    [] OTHER -> {}

\* C5 as stated: with batch probability 1 and a non-trivial operation every
\* effect returns a path other than its input, and the input is gone
C5_NewPathInputGone ==
  (pc = "returned" /\ call.batchPerc = Den /\ NonTrivial(call)) =>
     (cur # call.cur /\ call.cur \notin files)

\* C5 amended: that holds for every effect but stripes-white, when the input
\* is not a file the effect itself writes; stripes-white rewrites its input
\* in place and returns the same path, the file still on disk
C5_NewPathExceptStripesW ==
  (pc = "returned" /\ call.batchPerc = Den /\ NonTrivial(call)) =>
     IF call.eff = "stripesw"
     THEN cur = call.cur /\ files = {call.cur} /\ call.wrote = {call.cur}
     ELSE call.cur[2] \notin OwnOutputs(call.eff) =>
            (cur # call.cur /\ call.cur \notin files /\ files = {cur} /\ cur \in call.wrote)

\* C5 witness: a stripes call with two clusters returned the last composite
C5_Witness ==
  /\ pc = "returned"
  /\ call.eff = "stripes" /\ call.batchPerc = Den /\ call.drawn = 2
  /\ call.cur = TmpPath(1, "base", 0)
  /\ cur = TmpPath(1, "stripes_blob_comp", 1)
  /\ files = {cur}

\* C6: tile-shift with amountTiles = 0, and stripes-black with no cluster or
\* with a speckle count below 1, return the input handle and touch no file
\* (stated for calls that the batch gate lets through)
C6_NothingToDrawNoop ==
  (/\ pc = "returned"
   /\ call.batchPerc = Den
   /\ \/ call.eff = "tileshift" /\ call.par.amountTiles = 0
      \/ call.eff = "stripes" /\ ~NonTrivial(call)) => CallWasNoop

\* C7 as stated: for the debug document an enabled stage named in the
\* exclusion list still runs (every batch probability being 1 there), only
\* its snapshot is missing
C7_ExcludedStillRuns ==
  (currentDebug /\ pc = "compress") =>
     \A key \in cfg.on \cap cfg.debugSkip :
        (key = "rotatemirror" => "rotate" \in cfg.on) =>
           (Ran(key) /\ <<name, key>> \notin snaps)

\* C7 amended: for the debug document a stage named in the exclusion list
\* does not run at all: no transform, no snapshot and no log line
C7_ExcludedNeverRuns ==
  currentDebug =>
     \A key \in cfg.debugSkip :
        ~Ran(key) /\ <<name, key>> \notin snaps /\ <<name, key>> \notin logs

\* C7 witness: the debug document reached Compress with rotate enabled and
\* excluded, while the stages not excluded ran and were snapshotted
C7_Witness ==
  /\ currentDebug /\ pc = "compress"
  /\ "rotate" \in cfg.on \cap cfg.debugSkip
  /\ Ran("warp") /\ Ran("alpha") /\ <<name, "alpha">> \in snaps
  /\ ~Ran("rotate")

\* the first PDF among the directory entries (0: there is none)
FirstPdf ==
  IF \E i \in 1 .. NumFiles : srcFiles[i] = "pdf"
  THEN CHOOSE i \in 1 .. NumFiles :
         srcFiles[i] = "pdf" /\ \A j \in 1 .. (i - 1) : srcFiles[j] # "pdf"
  ELSE 0

\* C8: snapshots and log lines exist for the first PDF only, and only with
\* debugPipeline; once the first PDF is rendered it has a snapshot; once it
\* has completed the first-document flag is false for the rest of the run
C8_DebugFirstPdfOnly ==
  /\ \A e \in snaps \cup logs : cfg.debugPipeline /\ e[1] = FirstPdf
  /\ (cfg.debugPipeline /\ FirstPdf # 0 /\ (fileIdx > FirstPdf \/ pc \in Boundaries)) =>
        <<FirstPdf, "render">> \in snaps \cap logs
  /\ (FirstPdf # 0 /\ fileIdx > FirstPdf) => (~isFirstPdf /\ ~currentDebug)

\* C8 witness: with debugPipeline the second PDF is at the end of its
\* pipeline, the first one has its snapshots
C8_Witness ==
  /\ cfg.debugPipeline
  /\ FirstPdf = 1 /\ fileIdx = 2 /\ pc = "cleanup"
  /\ Ran("alpha") /\ Ran("tileshift")
  /\ <<1, "alpha">> \in snaps /\ <<1, "compress">> \in snaps

\* C9: once a call has thrown the run is over: no stage runs again, for this
\* document or a later one, and the outputs written so far stay as they are
C9_HaltOnThrow ==
  /\ [](threw => pc = "halted")
  /\ [][threw => UNCHANGED <<trace, fileIdx, outputs, files, cur>>]_vars
  /\ [][threw' => \A d \in 1 .. NumFiles : d # fileIdx => outputs'[d] = outputs[d]]_vars

\* C9 witness: the second document threw in the middle of its pipeline,
\* after the first one's output was written
C9_Witness ==
  /\ threw /\ pc = "halted"
  /\ fileIdx = 2 /\ Len(outputs[1]) = 1 /\ Len(outputs[2]) = 0
  /\ Len(trace) >= 4

\* C10: a stage starts only when no stage is in flight, the awaited
\* stripes-white stage included, and the loop moves to the next entry only
\* after Cleanup of the current document
C10_Sequential ==
  /\ [](sw.step # 0 => (pc = "stripesw_await" /\ sw.curPath = cur))
  /\ [][trace' # trace => sw.step = 0]_vars
  /\ [][fileIdx' # fileIdx =>
          (sw.step = 0 /\ (srcFiles[fileIdx] = "pdf" => trace'[Len(trace')] = "cleanup"))]_vars

\* C10 witness: the second document's stripes-white call is about to write
\* the file while the loop is suspended
C10_Witness ==
  /\ fileIdx = 2 /\ Len(outputs[1]) = 1
  /\ pc = "stripesw_await" /\ sw.step = 4

\* C11: the image applyWarpEffect or applyRotateEffect returns has the width
\* and the height of its input, for every page size, offset, final scale,
\* bounding box and angle
C11_SizePreserved ==
  pc = "sized" => call.out = Size(call.w, call.h)

\* C11 witness: a warp of a non-square page with a non-zero offset and a
\* final scale below 1, whose content box differs from the page
C11_Witness ==
  /\ pc = "sized"
  /\ call.fn = "warp"
  /\ call.w # call.h
  /\ call.off # 0
  /\ call.scale \in 1 .. (ScaleDen - 1)
  /\ Size(call.tw, call.th) # Size(call.w, call.h)
  /\ call.out = Size(call.w, call.h)

\* the block side the claim names: 1 if dropoutSize < 1, else floor(dropoutSize)
C12_b == IF call.size < SizeDen THEN 1 ELSE call.size \div SizeDen

\* the count the claim names: floor(W * H * coverage / (b * b))
C12_N == (call.w * call.h * call.amount) \div (FracDen * C12_b * C12_b)

\* C12: a dropout call that is not batch-skipped draws exactly
\* N = floor(W*H*coverage / (b*b)) rectangles, b being 1 for dropoutSize < 1
\* and floor(dropoutSize) otherwise; when N < 1 it returns the input handle,
\* the input file is still on disk and no file was created
C12_DropoutCount ==
  (pc = "returned" /\ call.eff = "dropout" /\ call.ran) =>
     /\ Len(call.mvg.lines) = C12_N
     /\ C12_N < 1 => (cur = call.in /\ files = {call.in} /\ call.wrote = {})

\* C12 witness: a fractional block side of 2.5 px on a 3 x 3 page with full
\* coverage gives floor(9 / 4) = 2 rectangles
C12_Witness ==
  /\ pc = "returned"
  /\ call.eff = "dropout"
  /\ call.ran
  /\ call.size = 2 * SizeDen + 1
  /\ call.w = 3 /\ call.h = 3 /\ call.amount = FracDen
  /\ Len(call.mvg.lines) = 2
  /\ cur # call.in

\* C13: a white-noise call that is not batch-skipped plots exactly
\* floor(W*H*density) point marks whatever positions are drawn, every mark
\* lies at 0 <= x < W, 0 <= y < H, and when the count is below 1 the input
\* handle is returned with the input file untouched
C13_SpeckleCount ==
  (pc = "returned" /\ call.eff = "noisew" /\ call.ran) =>
     LET n == (call.w * call.h * call.amount) \div FracDen
     IN  /\ Len(call.mvg.lines) = n
         /\ \A i \in 1 .. Len(call.mvg.lines) :
              /\ 0 <= call.mvg.lines[i][1] /\ call.mvg.lines[i][1] < call.w
              /\ 0 <= call.mvg.lines[i][2] /\ call.mvg.lines[i][2] < call.h
         /\ n < 1 => (cur = call.in /\ files = {call.in} /\ call.wrote = {})

\* C13 witness: several marks on a page one pixel wide, the last column and
\* the last row among the positions drawn
C13_Witness ==
  /\ pc = "returned"
  /\ call.eff = "noisew"
  /\ call.ran
  /\ call.w = 1 /\ call.h > 1
  /\ Len(call.mvg.lines) > 1
  /\ \E i \in 1 .. Len(call.mvg.lines) : call.mvg.lines[i][2] = call.h - 1
  /\ cur # call.in

\* the pixels the composite changes: those where the overlay is not transparent
Affected == {p \in DOMAIN call.out.alpha : call.out.alpha[p] # 0}

\* C14: the overlay's alpha is non-zero at a pixel iff the stripe-band mask
\* and the re-thresholded noise mask are both on there; with distort = 0 the
\* affected region is exactly the stripe bands; with amount = 0 no pixel is
\* affected
C14_AlphaIsAnd ==
  pc = "masked" =>
     /\ \A p \in Pixels(call.w, call.h) :
          call.out.alpha[p] # 0 <=> (p \in call.out.stripeMask /\ p \in call.out.noiseMask)
     /\ call.distort = 0 => Affected = call.out.stripeMask
     /\ call.amount = 0 => Affected = {}

\* C14 witness: two masks that differ, each on at some pixel where the other
\* is off, and an overlay that is on at some pixel
C14_Witness ==
  /\ pc = "masked"
  /\ call.out.stripeMask \ call.out.noiseMask # {}
  /\ call.out.noiseMask \ call.out.stripeMask # {}
  /\ Affected # {}
  /\ Affected = call.out.stripeMask \cap call.out.noiseMask

\* C15: the output of every completed document is one <name>.tif, written
\* with Group4 compression when applyG4Compress is true and with the ZIP
\* fallback when it is false
C15_ModeFollowsConfig ==
  \A d \in Completed :
     outputs[d] = << IF cfg.par.applyG4Compress THEN "Group4" ELSE "Zip" >>

\* the runs of a generateTestdata invocation that went through its loop
C16_Runs == 1 .. call.amount

\* C16: with --pdfOnly every run writes a PDF and no XML is written; with
\* --xmlOnly every run writes an XML and no PDF is written; with neither flag
\* both are written; with both flags the program exits with an error before
\* writing anything
C16_OnlyFlags ==
  /\ (pc = "done" /\ call.pdfOnly /\ ~call.xmlOnly) =>
        /\ \A r \in C16_Runs : OutPath("pdf", r) \in files
        /\ Written("xml") = {}
  /\ (pc = "done" /\ call.xmlOnly /\ ~call.pdfOnly) =>
        /\ \A r \in C16_Runs : OutPath("xml", r) \in files
        /\ Written("pdf") = {}
  /\ (pc = "done" /\ ~call.xmlOnly /\ ~call.pdfOnly) =>
        \A r \in C16_Runs : OutPath("pdf", r) \in files /\ OutPath("xml", r) \in files
  /\ (call.pdfOnly /\ call.xmlOnly) => (pc \in {"args", "exit1"} /\ files = {})

\* C17: run r selects the r-th ClaimRecord, and the generator stops when r
\* exceeds the number of records, so the files of either kind never
\* outnumber the records
C17_StopsAtLastRecord ==
  /\ \A r \in 1 .. Len(call.selected) : call.selected[r] = r - 1
  /\ Cardinality(Written("pdf")) <= call.records
  /\ Cardinality(Written("xml")) <= call.records

\* the declared dependencies of key k that are keys of the config
C18_Deps(k) == {call.deps[k][i] : i \in 1 .. Len(call.deps[k])} \cap Keys(call)

\* the keys reachable from k along at least one and at most m dependencies
RECURSIVE C18_Reach(_, _)
C18_Reach(k, m) ==
  IF m = 0 THEN {}
  ELSE C18_Deps(k) \cup UNION {C18_Reach(d, m - 1) : d \in C18_Deps(k)}

\* some key depends on itself, directly or through other keys
C18_Cyclic == \E k \in Keys(call) : k \in C18_Reach(k, call.n)

\* the place of key k in the returned order
C18_Pos(k) == CHOOSE i \in 1 .. Len(call.out.result) : call.out.result[i] = k

\* C18: sortByDependencies returns every key of the config exactly once, each
\* key after all of its declared dependencies that are keys of the config; a
\* dependency that is not a key is skipped with a warning; and a dependency
\* cycle makes it throw the circular-dependency error instead of returning
C18_TopologicalOrder ==
  /\ pc = "sorted" =>
       /\ Len(call.out.result) = call.n
       /\ \A k \in Keys(call) : \E i \in 1 .. call.n : call.out.result[i] = k
       /\ \A k \in Keys(call) : \A d \in C18_Deps(k) : C18_Pos(d) < C18_Pos(k)
       /\ \A k \in Keys(call) : \A i \in 1 .. Len(call.deps[k]) :
            call.deps[k][i] \notin Keys(call) => <<call.deps[k][i], k>> \in call.out.warned
  /\ (pc \in {"sorted", "threw"} /\ C18_Cyclic) => pc = "threw"
  /\ pc = "threw" => C18_Cyclic

\* C18 witness: key 1 depends on key 2 and on a missing name, key 2 on key 3;
\* the order returned is 3, 2, 1 and one warning was given
C18_Witness ==
  /\ pc = "sorted"
  /\ call.n = 3
  /\ call.deps[1] = << 2, 4 >>
  /\ call.deps[2] = << 3 >>
  /\ call.out.result = << 3, 2, 1 >>
  /\ call.out.warned = {<< 4, 1 >>}

\* C19: in a non-debug document every effect module is called either behind
\* the orchestrator's own test of the batch probability and with probability
\* 1, or without such a test and with the configured probability; the same
\* probability is never tested in both places
C19_GatedOnce ==
  (call.eff \in Gated /\ pc \in Boundaries \cup {"stripesw_await"} /\ ~currentDebug) =>
     \/ call.gated /\ call.batchPerc = Den
     \/ ~call.gated /\ call.batchPerc = cfg.perc[call.eff]

\* C20: when the mirror block has been executed for a document, the handle it
\* worked on is the rotated image applyRotateEffect wrote for that document
C20_MirrorAfterRotation ==
  (pc = "stripesw" /\ Ran("rotatemirror")) => cur = TmpPath(name, "rotated", 0)


\* C21: for every tile of a tile-shift call the source crop and the paste
\* rectangle lie inside the canvas: 0 <= x, x + ts <= W, 0 <= y, y + ts <= H,
\* and the same for px, py
C21_TilesInsideCanvas ==
  pc = "tiled" =>
    \A i \in 1 .. Len(call.tiles) :
      LET t == call.tiles[i]
      IN  /\ 0 <= t.x /\ t.x + t.ts <= call.w
          /\ 0 <= t.y /\ t.y + t.ts <= call.h
          /\ 0 <= t.px /\ t.px + t.ts <= call.w
          /\ 0 <= t.py /\ t.py + t.ts <= call.h

\* the offset of twice its half-pixel value v is at most limit = min(w, h) / 2 - 1
C22_Within(v) == v <= Min(call.w, call.h) - 2 /\ -v <= Min(call.w, call.h) - 2

\* C22 as stated: for every page of at least 1 x 1 the corner offset the warp
\* uses is within min(W, H) / 2 - 1 in absolute value, and it is the requested
\* offset when that is within the bound
C22_OffsetClamped ==
  (pc = "sized" /\ call.fn = "warp") =>
     /\ C22_Within(call.used)
     /\ C22_Within(call.off) => call.used = call.off

\* C22: for every page whose shorter side is at least 2 pixels the corner
\* offset the warp uses is within min(W, H) / 2 - 1 in absolute value, and it
\* is the requested offset when that is within the bound
C22_OffsetClampedFrom2 ==
  (pc = "sized" /\ call.fn = "warp" /\ Min(call.w, call.h) >= 2) =>
     /\ C22_Within(call.used)
     /\ C22_Within(call.off) => call.used = call.off

\* C22 witness: a requested offset below the negative bound of a 3 x 3 page
\* was clamped to -1/2
C22_Witness ==
  /\ pc = "sized"
  /\ call.fn = "warp"
  /\ call.w = 3 /\ call.h = 3
  /\ call.off < -1
  /\ call.used = -1

\* four times the square of the distance of centre c from the page centre
C23_D2(c) == (2 * c[1] - call.w) * (2 * c[1] - call.w) + (2 * c[2] - call.h) * (2 * c[2] - call.h)

\* the smear length of a cluster with centre c
C23_Len(c) == BlurLen(call.w, call.h, c[1], c[2], call.smearLMin, call.smearLMax)

\* C23: with smear enabled and smearLMin <= smearLMax every cluster's smear
\* length lies in [smearLMin, smearLMax], a cluster no farther from the page
\* centre than another has a smear at least as long, a cluster at the page
\* centre has smearLMax and one as far away as the farthest corner smearLMin
C23_SmearByDistance ==
  (pc = "returned" /\ call.applySmear /\ call.smearLMin <= call.smearLMax) =>
     LET cl == call.out.clusters
         m2 == call.w * call.w + call.h * call.h
     IN  /\ \A i \in 1 .. Len(cl) :
               /\ call.smearLMin * LenDen <= cl[i].blurLen
               /\ cl[i].blurLen <= call.smearLMax * LenDen
               /\ cl[i].d2 = 0 => cl[i].blurLen = call.smearLMax * LenDen
               /\ cl[i].d2 = m2 => cl[i].blurLen = call.smearLMin * LenDen
         /\ \A i, j \in 1 .. Len(cl) : cl[i].d2 <= cl[j].d2 => cl[i].blurLen >= cl[j].blurLen
         /\ \A c1, c2 \in (0 .. call.w) \X (0 .. call.h) :
              C23_D2(c1) <= C23_D2(c2) => C23_Len(c1) >= C23_Len(c2)

\* C23 witness: of two clusters the first is off the page centre and has a
\* smear shorter than smearLMax, the second is at the centre and has smearLMax
C23_Witness ==
  /\ pc = "returned"
  /\ call.applySmear
  /\ call.smearLMin < call.smearLMax
  /\ Len(call.out.clusters) = 2
  /\ call.out.clusters[1].d2 > 0
  /\ call.out.clusters[1].blurLen > call.smearLMin * LenDen
  /\ call.out.clusters[1].blurLen < call.smearLMax * LenDen
  /\ call.out.clusters[2].d2 = 0
  /\ call.out.clusters[2].blurLen = call.smearLMax * LenDen

\* the paths unlinked by the call
C28_Unlinked == {call.out.unlinked[i] : i \in 1 .. Len(call.out.unlinked)}

\* C28: when applyStripesEffect returns normally the returned path is the
\* only file of the call on disk, every other file it wrote was unlinked, no
\* path was unlinked twice, and the input is gone exactly when at least one
\* cluster was composited
C28_StripesTempsCleaned ==
  pc = "returned" =>
     /\ files = {cur}
     /\ \A f \in call.out.wrote \ {cur} : f \in C28_Unlinked
     /\ \A i, j \in 1 .. Len(call.out.unlinked) :
          call.out.unlinked[i] = call.out.unlinked[j] => i = j
     /\ (call.in \notin files) <=> (Len(call.out.clusters) >= 1)

\* C28 witness: two smeared clusters were composited; ten paths were unlinked
\* and the second composite is what is left
C28_Witness ==
  /\ pc = "returned"
  /\ call.applySmear
  /\ Len(call.out.clusters) = 2
  /\ Len(call.out.unlinked) = 10
  /\ call.in \in C28_Unlinked
  /\ TmpPath(1, "stripes_blob_comp", 0) \in C28_Unlinked
  /\ files = {TmpPath(1, "stripes_blob_comp", 1)}

\* the configured <<min, max>> of the parameter handed to stage eff
C24_Range(eff) ==
  CASE eff = "warp"      -> << cfg.par.warpOffsetMinPx, cfg.par.warpOffsetMaxPx >>
    [] eff = "blur"      -> << cfg.par.blurRadMin, cfg.par.blurRadMax >>
    [] eff = "stripes"   -> << cfg.par.stripesDensityMin, cfg.par.stripesDensityMax >>
    [] eff = "noisew"    -> << cfg.par.noiseWDensityMin, cfg.par.noiseWDensityMax >>
    [] eff = "dropout"   -> << cfg.par.dropoutAmountMin, cfg.par.dropoutAmountMax >>
    [] eff = "tileshift" -> << cfg.par.amountTilesMin, cfg.par.amountTilesMax >>

\* the last call of a non-debug document was handed a parameter whose
\* min/max keys are both set, with min <= max; warp always has both
C24_Ranged ==
  /\ pc \in Boundaries
  /\ ~currentDebug
  /\ call.eff \in {"warp", "blur", "stripes", "noisew", "dropout", "tileshift"}
  /\ (call.eff = "warp" \/ (C24_Range(call.eff)[1] # Undef /\ C24_Range(call.eff)[2] # Undef))
  /\ C24_Range(call.eff)[1] <= C24_Range(call.eff)[2]

\* the parameter of the last call lies in its range (a tile count is a whole
\* number, the other parameters are over Den)
C24_InRange ==
  IF call.eff = "tileshift"
    THEN call.param \in C24_Range(call.eff)[1] .. C24_Range(call.eff)[2]
    ELSE /\ C24_Range(call.eff)[1] * Den <= call.param
         /\ call.param <= C24_Range(call.eff)[2] * Den

\* C24 as stated: in a non-debug document whose min/max pairs satisfy
\* min <= max, the warp offset, blur radius, stripes density, white-noise
\* density and dropout amount handed on lie in [min, max] and the tile count
\* is a whole number in amountTilesMin .. amountTilesMax
C24_ParamsInRange == C24_Ranged => C24_InRange

\* C24: as above for every parameter but the blur radius, which lies in
\* [blurRadMin, blurRadMax] when the draw against blurRadBatchPerc selected the
\* range and is blurRadius otherwise
C24_ParamsInRangeOrDefault ==
  C24_Ranged =>
    IF call.eff = "blur" /\ ~call.sampled
      THEN call.param = cfg.par.blurRadius * Den
      ELSE C24_InRange

\* C24 witness: the tile count handed to the tile-shift effect is
\* amountTilesMax, above amountTilesMin
C24_Witness ==
  /\ C24_Ranged
  /\ call.eff = "tileshift"
  /\ cfg.par.amountTilesMin < cfg.par.amountTilesMax
  /\ call.param = cfg.par.amountTilesMax

\* C25: a call of applyBrightness whose engine does not fail runs the one
\* transform its option selects (modulate, level, else the white overlay),
\* deletes its input and returns <name>_bright.png; the overlay's opacity is
\* a whole number in [brightnessMin, brightnessMax]
C25_OneTransform ==
  (pc \in {"returned", "threw"} /\ call.failAt = 0) =>
     /\ pc = "returned"
     /\ call.out.transform = BrightnessTransform(call.brightnessOption)
     /\ call.in \notin files
     /\ cur = TmpPath(1, "bright", 0) /\ cur \in files
     /\ call.out.transform = "overlay" =>
          call.out.opacity \in call.brightnessMin .. call.brightnessMax

\* the stages that are handed a parameter, and the fixed value of each (a
\* tile count is a whole number, the other parameters are over Den); the
\* rotation has no fixed angle
C26_Resolved == {"warp", "blur", "stripes", "noisew", "dropout", "tileshift"}

C26_Fixed(eff) ==
  CASE eff = "warp"      -> cfg.par.warpOffsetPx * Den
    [] eff = "blur"      -> cfg.par.blurRadius * Den
    [] eff = "stripes"   -> cfg.par.stripesDensity * Den
    [] eff = "noisew"    -> cfg.par.noiseWDensity * Den
    [] eff = "dropout"   -> cfg.par.dropoutAmount * Den
    [] eff = "tileshift" -> cfg.par.amountTiles

\* C26 as stated: in the debug document every enabled stage that is not
\* excluded has executed once the stage blocks are passed, every call was
\* handed the batch probability 1, and no parameter was drawn from a range
C26_DebugForcesAll ==
  (currentDebug /\ pc \in Boundaries) =>
     /\ pc = "compress" => \A key \in Toggles : StageOn(key) => Ran(key)
     /\ call.eff \in Gated => call.batchPerc = Den
     /\ call.eff \in C26_Resolved \cup {"rotate"} => ~call.sampled

\* C26: in the debug document every enabled stage that is not excluded has
\* executed once the stage blocks are passed, the mirror only if the rotation
\* has; every call was handed the batch probability 1; every parameter the
\* orchestrator resolves has its fixed configured value, while the rotation
\* angle is drawn by the effect from [rotateMin, rotateMax]
C26_DebugForces ==
  (currentDebug /\ pc \in Boundaries) =>
     /\ pc = "compress" =>
          /\ \A key \in Toggles \ {"rotatemirror"} : StageOn(key) => Ran(key)
          /\ Ran("rotatemirror") <=> (StageOn("rotatemirror") /\ Ran("rotate"))
     /\ call.eff \in Gated => call.batchPerc = Den
     /\ call.eff \in C26_Resolved => (~call.sampled /\ call.param = C26_Fixed(call.eff))
     /\ call.eff = "rotate" => call.sampled

\* C26 witness: a debug document whose batch probabilities are all 0 went
\* through warp, rotation, mirror and dropout, and the tile-shift was handed
\* the configured tile count although a min/max range is configured
C26_Witness ==
  /\ currentDebug
  /\ pc = "compress"
  /\ \A key \in Gated : cfg.perc[key] = 0
  /\ Ran("warp") /\ Ran("rotate") /\ Ran("rotatemirror") /\ Ran("dropout")
  /\ call.eff = "tileshift"
  /\ cfg.par.amountTilesMin < cfg.par.amountTilesMax
  /\ call.param = cfg.par.amountTiles

\* the positions of the loop inside the blocks of the in-place stages: mirror,
\* white stripes (the call and its awaited body), alpha, gray, blur,
\* rasterization, dither and final threshold
C27_InPlacePcs == {"rotatemirror", "stripesw", "stripesw_await", "alpha", "gray", "blur",
                   "rasterization", "dither", "finalthreshold"}

\* C27: a step of an in-place stage (Mirror, StripesWhite, AlphaFlatten,
\* Grayscale, Blur, RasterDither, ErrorDiffusionDither, FinalThreshold) leaves
\* the working handle as it was and neither creates nor deletes a file of the
\* temp directory
C27_InPlaceFrame ==
  [][(pc \in C27_InPlacePcs) => (cur' = cur /\ files' = files)]_vars

\* C27 witness: all eight in-place stages were entered for one document, none
\* threw, and the handle still names a file of the temp directory
C27_Witness ==
  /\ pc = "dropout"
  /\ ~threw
  /\ \A stage \in C27_InPlacePcs \ {"stripesw_await"} : Ran(stage)
  /\ cfg.par.rotateMirrorArray # << >>
  /\ cur \in files

\* C29: every rectangle of a dropout script lies inside the canvas:
\* 0 <= x, x+b-1 <= W-1, 0 <= y, y+b-1 <= H-1, for every image size and block
\* side with a block count of at least 1
C29_RectanglesInside ==
  (pc = "returned" /\ call.eff = "dropout" /\ call.ran /\ ~call.mvg.null) =>
     \A i \in 1 .. Len(call.mvg.lines) :
        LET l == call.mvg.lines[i]
        IN  /\ 0 <= l[1] /\ l[3] <= call.w - 1
            /\ 0 <= l[2] /\ l[4] <= call.h - 1

\* the dateRelative fields whose relativeTo names another field
C30_Relative == {k \in Keys(call) : call.rel[k] \in Keys(call) \ {k}}

\* position of a key in sortedPaths
C30_Pos(k) == CHOOSE j \in 1 .. Len(call.sortedPaths) : call.sortedPaths[j] = k

\* C30: in every generated record each dateRelative field whose relativeTo
\* names another field is generated after that field, and its value is the
\* referenced field's value of the same record plus an offset in
\* [offsetMinDays, offsetMaxDays] days
C30_RelativeAfterReferenced ==
  (pc \in {"records", "generated"}) =>
     \A k \in C30_Relative :
        /\ C30_Pos(call.rel[k]) < C30_Pos(k)
        /\ \A i \in 1 .. Len(call.records) :
              LET days == call.records[i][k] - call.records[i][call.rel[k]]
              IN  call.offsetMinDays <= days /\ days <= call.offsetMaxDays

====
